---- MODULE Spec2Model ----
(***************************************************************************)
(* Acquisition-and-control pipeline of the MCC E-1608 control application. *)
(*                                                                         *)
(*   SpecScan : DaqDriver scan reader (daq_driver.py) against a hardware   *)
(*              ring that the board fills one value at a time.             *)
(*   SpecPid  : one PID loop built from a definition (pid.py) and fed      *)
(*              sample blocks through PIDManager.process_block.            *)
(*   Spec     : the PID manager under the setup dialog and the status      *)
(*              table of the main window, while sample blocks keep         *)
(*              arriving and their commands are written to the outputs.    *)
(*   SpecTable: the same manager under the status table, file loads and   *)
(*              resets.                                                    *)
(*   SpecHist : the plot histories of the main window (main.py) under the  *)
(*              consumer-side operations: connect, disconnect, apply       *)
(*              config, config load and edit, span change, block arrival   *)
(*              and the timer pass that drains the queue.                  *)
(*   SpecQueue: the same queue with more payloads waiting than one timer   *)
(*              pass pops.                                                 *)
(*   SpecStep : one _PIDCore.step call at a time.                          *)
(*   SpecCfg  : configuration loads and edits while PID loops run.         *)
(*   SpecInvalid: PID files holding a loop with a channel out of range.    *)
(*   SpecWorker: the AcqWorker thread between the scan reader and the      *)
(*              queue.                                                     *)
(*   SpecBlock: one PID loop fed one sample block at a time.               *)
(*   SpecFilter: one OnePoleLPF object (filters.py) under its methods.     *)
(*   SpecOut  : the outputs under PID commands, a momentary button and a   *)
(*              slider, and what each drained block adds to the output     *)
(*              histories.                                                 *)
(*   SpecRender: the histories under connect, drain and the render timer.  *)
(*   SpecThreads: the AcqWorker thread beside the timer pass of the main   *)
(*              thread.                                                    *)
(*   SpecFifo : the queue between block arrival and the timer pass, with   *)
(*              connects, disconnects and reconfigurations.                *)
(*   SpecDrain: the same queue after the worker has stopped, the timer     *)
(*              pass weakly fair.                                          *)
(*   SpecDup  : PID files in which two loops name one output channel.      *)
(*   SpecNan  : an analog loop fed by a thermocouple whose read can fail.  *)
(*   SpecJoin : the AcqWorker thread with the call and the return of       *)
(*              read_ai_new apart, beside the stop-and-wait of the main    *)
(*              thread.                                                    *)
(*   SpecStop : the same thread under stop(), its steps weakly fair.       *)
(*   SpecScript: the ScriptRunner (script_runner.py) under the script      *)
(*              actions of the main window and its timer.                  *)
(*                                                                         *)
(* Numbers are integers.  Ring values are the hardware's write sequence    *)
(* numbers, so that a missing, repeated or reordered sample is visible.    *)
(* Python floats are integers plus the value NaN; the gains, periods and   *)
(* samples used make every division of the control law exact.             *)
(* Filter coefficients are kept in thousandths and filter outputs are     *)
(* rounded down to integers.                                               *)
(***************************************************************************)
EXTENDS Integers, Sequences, FiniteSets, TLC

\* ---------------------------------------------------------------- bounds
MaxWritten == 8      \* values the board writes during one scan
MaxHigh == 2         \* highest channel number passed to start_ai_scan
MaxBlock == 3        \* largest block_size passed to start_ai_scan
MaxBlockLen == 2     \* samples per channel in one block handed to the PID loops
MaxAbsI == 20        \* the PID steps explored keep |integral| within this

\* --------------------------------------------------------------- helpers
Max2(a, b) == IF a >= b THEN a ELSE b
Min2(a, b) == IF a <= b THEN a ELSE b

VARIABLES
    op,                \* name of the operation that produced the current state
    \* --- DaqDriver fields (daq_driver.py:17)
    scan_running, scan_low, scan_high, scan_num_ch, scan_rate, scan_count,
    scan_last_index,
    scan_mem,          \* the scan ring: <<>> when not allocated, else one value per position
    \* --- the board
    hw_count,          \* values written into the ring since the scan started
    \* --- result of the last read_ai_new call
    ret,
    \* --- history of the scan, kept for the statements about it
    delivered,         \* per channel: concatenation of the runs returned so far
    overrun,           \* some read found a whole ring or more unread
    \* --- configuration (config_manager.py)
    cfg_no,            \* cfg.digitalOutputs[ch].normallyOpen, ch = 0..NumDO-1 at position ch + 1
    \* --- PIDManager (pid.py:148-152)
    defs,              \* the PIDLoopDef objects, by object identity
    loops,             \* PIDManager.loops: identities in list order
    dloops,            \* PIDManager.dloops: DigitalPID instances
    aloops,            \* PIDManager.aloops: AnalogPID instances
    cmds,              \* (do_cmds, ao_cmds) returned by the last process_block
    \* --- PID user interface (main.py)
    dlg_open,          \* a PIDSetupDialog is executing
    dlg_rows,          \* its table: per row the row number bound into the handlers and the widgets
    pid_table,         \* MainWindow.pid_table: per row the editable widgets
    written,           \* output writes issued for the last block, each with the definition behind it
    reenabled,         \* definitions switched from disabled to enabled, their loop not stepped since
    first_steps,       \* for the last block: the state from which such loops took their first step
    \* --- MainWindow acquisition state (main.py:315-337, 437, 450)
    cfg_rate,          \* cfg.sampleRateHz
    cfg_tcs,           \* len(cfg.thermocouples)
    daq_connected,     \* self.daq and self.daq.connected
    acq_running,       \* self.acq_thread is a running AcqWorker
    etc_connected,     \* self.etc and self.etc.connected
    sample_period,     \* self.sample_period, in microseconds
    time_window_s,     \* self.time_window_s
    chunk_queue,       \* self._chunk_queue: the payloads not drained yet
    hist,              \* ai_hist_x, ai_hist_y, do_hist_y, ao_hist_y, tc_hist_y: each buffer by maxlen and length,
                       \* the time axis also by its values
    \* --- the last single _PIDCore.step observed: the core before it, pv and dt
    step_call,
    \* --- the last PIDManager.process_block call observed on its own: the
    \*     instances before it, the block and dt
    block_call,
    \* --- the shapes of the blocks handed to the last PIDManager.process_block
    block_shape,
    \* --- a OnePoleLPF object (filters.py) and the last call made on it: the
    \*     filter before the call, the chunk passed and the chunk returned
    lpf,
    \* --- the AcqWorker thread (acq_worker.py): position in run(), _stop, and what became of its reads
    worker,
    \* --- the outputs as the main window holds them (main.py): do_state,
    \*     ao_value, the momentary buttons held down, the hardware writes of
    \*     the last operation, and M of the last payload drained with what it
    \*     appended to the output histories
    outs,
    \* --- what the last _render pass handed to the combined chart: the time
    \*     axis and, per series, the length of the array given to its curve
    shown,
    \* --- the ScriptRunner (script_runner.py): its fields, the clock it reads,
    \*     the events it has applied since the last reset and the finished
    \*     signals it has emitted
    script

scanVars == <<scan_running, scan_low, scan_high, scan_num_ch, scan_rate, scan_count,
              scan_last_index, scan_mem, hw_count, ret, delivered, overrun>>

pidVars == <<cfg_no, defs, loops, dloops, aloops, cmds>>

uiVars == <<dlg_open, dlg_rows, pid_table, written, reenabled, first_steps>>

histVars == <<cfg_rate, cfg_tcs, daq_connected, acq_running, etc_connected, sample_period,
              time_window_s, chunk_queue, hist>>

vars == <<op, scanVars, pidVars, uiVars, histVars, step_call, block_call, block_shape, lpf, worker, outs, shown, script>>

\* no block has gone through process_block yet
NoBlock == [n_ai |-> 0, n_tc |-> 0]

\* ai_block_2d.shape[1] and tc_block_2d.shape[1] (pid.py:213-214)
shape_of(ai_block_2d, tc_block_2d) == [n_ai |-> Len(ai_block_2d), n_tc |-> Len(tc_block_2d)]

\* nothing rendered yet
NoShown == [n |-> 0, first |-> 0, last |-> 0, span |-> 0,
            ai |-> <<>>, ao |-> <<>>, tc |-> <<>>, do |-> <<>>]

\* no AcqWorker thread is running
NoEmit == [low |-> 0, raw |-> <<>>, data |-> <<>>, before |-> <<>>]
NoWorker == [pc |-> "none", stop |-> FALSE, fault |-> FALSE, reads_after_fault |-> 0,
             slopes |-> <<>>, offsets |-> <<>>, cutoffs |-> <<>>, fs |-> 0,
             filters |-> <<>>, emitted |-> NoEmit, waited |-> FALSE, after_stop |-> 0]

\* what the operations of one component leave alone
notScan == <<pidVars, uiVars, histVars, step_call, block_call, block_shape, lpf, worker, outs, shown, script>>
notPid == <<scanVars, uiVars, histVars, step_call, block_call, block_shape, lpf, worker, outs, shown, script>>

\* ------------------------------------------------------------ DaqDriver
RetNone == [none |-> TRUE, low |-> 0, num_ch |-> 0, ch_lists |-> <<>>]
RetPkt(low, n, lists) == [none |-> FALSE, low |-> low, num_ch |-> n, ch_lists |-> lists]

\* [[] for _ in range(n)], channel index c kept at position c + 1
EmptyLists(n) == [c \in 1..n |-> <<>>]

\* ul.scaled_win_buf_to_array(mem, arr, first, count); ring position p is mem[p + 1]
pull(mem, first, count) == [i \in 1..count |-> mem[first + i]]

Pulls_headfirst(last, processed, total) ==
    IF last + processed <= total
    THEN << <<last, processed>> >>
    ELSE << <<0, processed - (total - last)>>, <<last, total - last>> >>

Pulls_skipfirst(last, processed, total) ==
    IF last + processed <= total
    THEN << <<last, processed>> >>
    ELSE << <<last, total - last>>, <<1, processed - (total - last)>> >>

\* the contiguous pulls of one read: one, or two when the run passes the end of the ring
Pulls(last, processed, total) ==
    IF last + processed <= total
    THEN << <<last, processed>> >>
    ELSE << <<last, total - last>>, <<0, processed - (total - last)>> >>

ReadData(mem, last, processed, total) ==
    LET ps == Pulls(last, processed, total) IN
    IF Len(ps) = 1 THEN pull(mem, ps[1][1], ps[1][2])
    ELSE pull(mem, ps[1][1], ps[1][2]) \o pull(mem, ps[2][1], ps[2][2])

\* for i, val in enumerate(data): ch_lists[(ch0_offset + i) % frame].append(val)
RECURSIVE DeinterleaveFrom(_, _, _, _, _)
DeinterleaveFrom(lists, data, frame, ch0_offset, i) ==
    IF i > Len(data) THEN lists
    ELSE DeinterleaveFrom(
            [lists EXCEPT ![((ch0_offset + (i - 1)) % frame) + 1] = Append(@, data[i])],
            data, frame, ch0_offset, i + 1)

Deinterleave(data, frame, ch0_offset) ==
    DeinterleaveFrom(EmptyLists(frame), data, frame, ch0_offset, 1)

Processed_partial(new_total, frame) == new_total

\* whole-frame part of the newly available values
Processed(new_total, frame) == new_total - (new_total % frame)

\* ul.get_status: the ring-write index
CurIndex == hw_count % scan_count

\* values the board has written that no read has returned yet
Unread == hw_count - scan_num_ch * Len(delivered[1])

InitDriver ==
    /\ scan_running = FALSE /\ scan_low = 0 /\ scan_high = 0 /\ scan_num_ch = 0
    /\ scan_rate = 0 /\ scan_count = 0 /\ scan_last_index = 0 /\ scan_mem = <<>>
    /\ hw_count = 0 /\ ret = RetNone /\ delivered = <<>> /\ overrun = FALSE

\* start_ai_scan: stop a running scan, size and allocate the ring, start the board
StartAiScan(low_chan, high_chan, rate_hz, block_size, actual_rate) ==
    LET num_ch == Max2(1, high_chan - low_chan + 1)
        total_count == Max2(1, block_size) * num_ch
    IN
    /\ op' = "start_ai_scan"
    /\ scan_mem' = [p \in 1..total_count |-> -1]
    /\ scan_running' = TRUE
    /\ scan_low' = low_chan
    /\ scan_high' = high_chan
    /\ scan_num_ch' = num_ch
    /\ scan_rate' = (IF actual_rate # 0 THEN actual_rate ELSE rate_hz)
    /\ scan_count' = total_count
    /\ scan_last_index' = 0
    /\ hw_count' = 0
    /\ delivered' = EmptyLists(num_ch)
    /\ overrun' = FALSE
    /\ UNCHANGED <<ret, notScan>>

\* start_ai_scan when scaled_win_buf_alloc returns nothing: a running scan has
\* been stopped, the empty handle is stored and DaqError is raised
StartAiScanFail ==
    /\ op' = "start_ai_scan_fail"
    /\ scan_running' = FALSE
    /\ scan_mem' = <<>>
    /\ UNCHANGED <<scan_low, scan_high, scan_num_ch, scan_rate, scan_count,
                   scan_last_index, hw_count, ret, delivered, overrun, notScan>>

stop_ai_scan ==
    /\ scan_running
    /\ op' = "stop_ai_scan"
    /\ scan_mem' = <<>>
    /\ scan_running' = FALSE
    /\ UNCHANGED <<scan_low, scan_high, scan_num_ch, scan_rate, scan_count,
                   scan_last_index, hw_count, ret, delivered, overrun, notScan>>

\* the board stores the next converted value at the ring-write index
HwWrite ==
    /\ scan_running
    /\ hw_count < MaxWritten
    /\ op' = "hw_write"
    /\ scan_mem' = [scan_mem EXCEPT ![CurIndex + 1] = hw_count]
    /\ hw_count' = hw_count + 1
    /\ UNCHANGED <<scan_running, scan_low, scan_high, scan_num_ch, scan_rate,
                   scan_count, scan_last_index, ret, delivered, overrun, notScan>>

ReadResult_toindex(cur_index) ==
    LET total == scan_count
        last == scan_last_index
        new_total == (cur_index - last) % total
        frame == scan_num_ch
        processed == Processed(new_total, frame)
    IN
    IF new_total = 0 \/ processed = 0
    THEN [pkt |-> RetPkt(scan_low, scan_num_ch, EmptyLists(scan_num_ch)), last |-> cur_index]
    ELSE [pkt |-> RetPkt(scan_low, scan_num_ch,
                         Deinterleave(ReadData(scan_mem, last, processed, total),
                                      frame, last % frame)),
          last |-> cur_index]

ReadResult_nowrap(cur_index) ==
    LET total == scan_count
        last == scan_last_index
        new_total == (cur_index - last) % total
        frame == scan_num_ch
        processed == Processed(new_total, frame)
    IN
    IF new_total = 0 \/ processed = 0
    THEN [pkt |-> RetPkt(scan_low, scan_num_ch, EmptyLists(scan_num_ch)), last |-> last]
    ELSE [pkt |-> RetPkt(scan_low, scan_num_ch,
                         Deinterleave(ReadData(scan_mem, last, processed, total),
                                      frame, last % frame)),
          last |-> last + processed]

\* what read_ai_new returns and the read index it leaves, for a reported index
ReadResult(cur_index) ==
    LET total == scan_count
        last == scan_last_index
        new_total == (cur_index - last) % total
        frame == scan_num_ch
        processed == Processed(new_total, frame)
    IN
    IF new_total = 0 \/ processed = 0
    THEN [pkt |-> RetPkt(scan_low, scan_num_ch, EmptyLists(scan_num_ch)), last |-> last]
    ELSE [pkt |-> RetPkt(scan_low, scan_num_ch,
                         Deinterleave(ReadData(scan_mem, last, processed, total),
                                      frame, last % frame)),
          last |-> (last + processed) % total]

\* read_ai_new when ul.get_status or ul.scaled_win_buf_to_array raises: the
\* exception leaves the method before any field is assigned
read_ai_new_raises ==
    /\ scan_running
    /\ UNCHANGED scanVars

\* read_ai_new returning: the fields it assigns and the packet it returns
read_ai_new_returns ==
    /\ IF ~scan_running
       THEN /\ ret' = RetNone
            /\ UNCHANGED <<scan_last_index, delivered, overrun>>
       ELSE LET r == ReadResult(CurIndex) IN
            /\ ret' = r.pkt
            /\ scan_last_index' = r.last
            /\ delivered' = [c \in 1..scan_num_ch |-> delivered[c] \o r.pkt.ch_lists[c]]
            /\ overrun' = (overrun \/ Unread >= scan_count)
    /\ UNCHANGED <<scan_running, scan_low, scan_high, scan_num_ch, scan_rate,
                   scan_count, scan_mem, hw_count>>

read_ai_new ==
    /\ op' = "read_ai_new"
    /\ read_ai_new_returns
    /\ UNCHANGED notScan

\* ------------------------------------------------------------ Python values
\* None and float('nan'), kept apart from every number of the model
None == 1000001
NaN == 1000002

\* ScriptRunner.__init__: no events, paused, the timer not started; now is
\* what time.perf_counter() returns
NoScript == [events |-> <<>>, t0 |-> None, paused |-> TRUE, pause_t |-> 0, cursor |-> 0,
             timer |-> FALSE, now |-> 1, applied |-> <<>>, finished |-> FALSE]

FAdd(a, b) == IF a = NaN \/ b = NaN THEN NaN ELSE a + b
FSub(a, b) == IF a = NaN \/ b = NaN THEN NaN ELSE a - b
FMul(a, b) == IF a = NaN \/ b = NaN THEN NaN ELSE a * b
\* a / b for b # 0; exact for the values of the model
FDiv(a, b) == IF a = NaN \/ b = NaN THEN NaN ELSE a \div b
\* comparisons with NaN are false
FLt(a, b) == a # NaN /\ b # NaN /\ a < b
FGt(a, b) == a # NaN /\ b # NaN /\ a > b
FGe(a, b) == a # NaN /\ b # NaN /\ a >= b

\* ------------------------------------------------------------ filters.py
\* alpha is kept in thousandths; filter outputs are rounded down to a whole
\* number of the unit the samples are counted in
AlphaDen == 1000

\* 1.0 - math.exp(-2.0 * math.pi * cutoff_hz / fs_hz), in thousandths, for the
\* cutoffs and rates of the model
alpha_of(cutoff_hz, fs_hz) ==
    IF cutoff_hz <= 0 THEN 0
    ELSE IF cutoff_hz = 10 /\ fs_hz = 100 THEN 467
    ELSE IF cutoff_hz = 10 /\ fs_hz = 200 THEN 270
    ELSE IF cutoff_hz = 25 /\ fs_hz = 100 THEN 792
    ELSE 544

\* OnePoleLPF.__init__
OnePoleLPF(cutoff_hz, fs_hz) ==
    [cutoff_hz |-> IF cutoff_hz >= 0 THEN cutoff_hz ELSE 0,
     fs_hz |-> IF fs_hz >= 1 THEN fs_hz ELSE 1,
     y |-> None,
     alpha |-> alpha_of(IF cutoff_hz >= 0 THEN cutoff_hz ELSE 0,
                        IF fs_hz >= 1 THEN fs_hz ELSE 1)]

set_fs_restart(f, fs_hz) ==
    [f EXCEPT !.fs_hz = IF fs_hz >= 1 THEN fs_hz ELSE 1,
              !.alpha = alpha_of(f.cutoff_hz, IF fs_hz >= 1 THEN fs_hz ELSE 1),
              !.y = None]

\* OnePoleLPF.set_fs
set_fs(f, fs_hz) ==
    [f EXCEPT !.fs_hz = IF fs_hz >= 1 THEN fs_hz ELSE 1,
              !.alpha = alpha_of(f.cutoff_hz, IF fs_hz >= 1 THEN fs_hz ELSE 1)]

\* OnePoleLPF.set_cutoff
set_cutoff(f, cutoff_hz) ==
    [f EXCEPT !.cutoff_hz = IF cutoff_hz >= 0 THEN cutoff_hz ELSE 0,
              !.alpha = alpha_of(IF cutoff_hz >= 0 THEN cutoff_hz ELSE 0, f.fs_hz)]

\* OnePoleLPF.reset
lpf_reset(f) == [f EXCEPT !.y = None]

\* yy + a * (xx - yy)
lpf_next(yy, a, xx) == yy + (a * (xx - yy)) \div AlphaDen

\* the outputs of process_chunk for the samples from k on, yy the output before
RECURSIVE chunk_from(_, _, _, _)
chunk_from(yy, a, x, k) ==
    IF k > Len(x) THEN <<>>
    ELSE <<lpf_next(yy, a, x[k])>> \o chunk_from(lpf_next(yy, a, x[k]), a, x, k + 1)

chunk_first_zero(f, x) == lpf_next(IF f.y = None THEN 0 ELSE f.y, f.alpha, x[1])

\* y[0] of process_chunk
chunk_first(f, x) == IF f.y = None THEN x[1] ELSE lpf_next(f.y, f.alpha, x[1])

\* the array process_chunk returns for a filter that is on and a chunk with samples
chunk_out(f, x) == <<chunk_first(f, x)>> \o chunk_from(chunk_first(f, x), f.alpha, x, 2)

process_chunk_reseed(f, x) ==
    IF f.cutoff_hz <= 0 \/ Len(x) = 0 THEN [f |-> f, y |-> x]
    ELSE [f |-> [f EXCEPT !.y = chunk_out(lpf_reset(f), x)[Len(x)]],
          y |-> chunk_out(lpf_reset(f), x)]

\* OnePoleLPF.process_chunk: the filter it leaves and the array it returns
process_chunk(f, x) ==
    IF f.cutoff_hz <= 0 \/ Len(x) = 0 THEN [f |-> f, y |-> x]
    ELSE [f |-> [f EXCEPT !.y = chunk_out(f, x)[Len(x)]], y |-> chunk_out(f, x)]

\* MainWindow.ai_filters[i] as __init__ builds it, no call made on it yet
NoLpf == [f |-> OnePoleLPF(0, 100), before |-> OnePoleLPF(0, 100), x |-> <<>>, y |-> <<>>]

\* ------------------------------------------------------------------ pid.py
NumDO == 3           \* digital outputs of the model (8 on the board)
NumAO == 2           \* len(self.ao_value)

\* do_state and ao_value after MainWindow.__init__ (main.py:329, 459), channel
\* ch at position ch + 1; no button held, nothing written or appended yet
NoOuts == [do_state |-> [c \in 1..NumDO |-> 0], ao_value |-> [c \in 1..NumAO |-> 0],
           held |-> {}, hw |-> {}, M |-> 0, do_tail |-> <<>>, ao_tail |-> <<>>]
DefIds == {1, 2}     \* identities available for PIDLoopDef objects

\* an identity no list and no instance refers to
FreeDef == [enabled |-> FALSE, kind |-> "free", ai_ch |-> 0, out_ch |-> 0, target |-> 0,
            kp |-> 0, ki |-> 0, kd |-> 0, out_min |-> None, out_max |-> None,
            err_min |-> None, err_max |-> None, i_min |-> None, i_max |-> None,
            src |-> "ai"]

clamp_lo_only(x, lo, hi) ==
    IF lo # None /\ FLt(x, lo) THEN lo ELSE x

\* _PIDCore._clamp
clamp(x, lo, hi) ==
    IF lo # None /\ FLt(x, lo) THEN lo
    ELSE IF hi # None /\ FGt(x, hi) THEN hi
    ELSE x

\* _PIDCore.__init__
NewCore(lp) ==
    [kp |-> lp.kp, ki |-> lp.ki, kd |-> lp.kd, setpoint |-> lp.target,
     err_min |-> lp.err_min, err_max |-> lp.err_max,
     i_min |-> lp.i_min, i_max |-> lp.i_max,
     i |-> 0, prev_err |-> None]

\* _PIDCore.reset
CoreReset(c) == [c EXCEPT !.i = 0, !.prev_err = None]

step_out_lazy(c, err, i, dt) ==
    [core |-> [c EXCEPT !.i = i,
                        !.prev_err = IF c.prev_err # None /\ dt > 0 THEN err ELSE @],
     u |-> FAdd(FAdd(FMul(c.kp, err), i),
                IF c.prev_err # None /\ dt > 0
                THEN FDiv(FMul(c.kd, FSub(err, c.prev_err)), dt)
                ELSE 0),
     err |-> err]

\* _PIDCore.step, the lines after the integral is clamped to i (pid.py:66-72)
step_out(c, err, i, dt) ==
    [core |-> [c EXCEPT !.i = i, !.prev_err = err],
     u |-> FAdd(FAdd(FMul(c.kp, err), i),
                IF c.prev_err # None /\ dt > 0
                THEN FDiv(FMul(c.kd, FSub(err, c.prev_err)), dt)
                ELSE 0),
     err |-> err]

\* _PIDCore.step, the lines after the error is clamped to err (pid.py:61-72)
step_err(c, err, dt) ==
    step_out(c, err, clamp(FAdd(c.i, FMul(FMul(c.ki, err), dt)), c.i_min, c.i_max), dt)

step_unclamped(c, pv, dt) ==
    step_err(c, FSub(c.setpoint, pv), dt)

\* _PIDCore.step: the core it leaves and the (u, err) it returns
step(c, pv, dt) ==
    step_err(c, clamp(FSub(c.setpoint, pv), c.err_min, c.err_max), dt)

\* DigitalPID.__init__ and AnalogPID.__init__; one record shape for both wrappers
DigitalPID(id, lp, normally_open) ==
    [defn |-> id, kind |-> "digital", no |-> normally_open, lo |-> None, hi |-> None,
     core |-> NewCore(lp),
     last_ai |-> 0, last_err |-> 0, last_u |-> NaN,
     last_actuate |-> FALSE, last_do_bit |-> 0, last_ao |-> 0]

AnalogPID(id, lp, lo, hi) ==
    [defn |-> id, kind |-> "analog", no |-> TRUE,
     lo |-> (IF lo = None THEN -10 ELSE lo), hi |-> (IF hi = None THEN 10 ELSE hi),
     core |-> NewCore(lp),
     last_ai |-> 0, last_err |-> 0, last_u |-> NaN,
     last_actuate |-> FALSE, last_do_bit |-> 0, last_ao |-> 0]

\* DigitalPID.reset and AnalogPID.reset
DigitalReset(d) ==
    [d EXCEPT !.core = CoreReset(@), !.last_ai = NaN, !.last_err = NaN, !.last_u = NaN,
              !.last_actuate = FALSE, !.last_do_bit = None]

AnalogReset(a) ==
    [a EXCEPT !.core = CoreReset(@), !.last_ai = NaN, !.last_err = NaN, !.last_u = NaN,
              !.last_ao = NaN]

Bit(b) == IF b THEN 1 ELSE 0

\* one pass of the sample loop of DigitalPID.process_block, r the result of the step
DigitalSample(d, pv, r) ==
    [d EXCEPT !.core = r.core, !.last_u = r.u, !.last_actuate = FGe(r.u, 0),
              !.last_ai = pv, !.last_err = r.err]

\* DigitalPID.process_block from sample k on
RECURSIVE DigitalFrom(_, _, _, _)
DigitalFrom(d, block, dt, k) ==
    IF k > Len(block) THEN d
    ELSE DigitalFrom(DigitalSample(d, block[k], step(d.core, block[k], dt)),
                     block, dt, k + 1)

DigitalBit_direct(e) ==
    [e EXCEPT !.last_do_bit = Bit(e.last_actuate)]

\* the NO/NC mapping that ends DigitalPID.process_block
DigitalBit(e) ==
    [e EXCEPT !.last_do_bit = Bit(IF e.no THEN e.last_actuate ELSE ~e.last_actuate)]

DigitalProcessBlock(d, block, dt) ==
    IF Len(block) = 0 THEN d ELSE DigitalBit(DigitalFrom(d, block, dt, 1))

AoClamp_none(u, lo, hi) == u

\* the AO range clamp inside AnalogPID.process_block
AoClamp(u, lo, hi) ==
    IF FLt(u, lo) THEN lo ELSE IF FGt(u, hi) THEN hi ELSE u

\* one pass of the sample loop of AnalogPID.process_block, r the result of the step
AnalogSample(a, pv, r) ==
    [a EXCEPT !.core = r.core, !.last_u = r.u, !.last_ai = pv, !.last_err = r.err,
              !.last_ao = AoClamp(r.u, a.lo, a.hi)]

\* AnalogPID.process_block from sample k on
RECURSIVE AnalogFrom(_, _, _, _)
AnalogFrom(a, block, dt, k) ==
    IF k > Len(block) THEN a
    ELSE AnalogFrom(AnalogSample(a, block[k], step(a.core, block[k], dt)),
                    block, dt, k + 1)

AnalogProcessBlock_last(a, block, dt) ==
    IF Len(block) = 0 THEN a ELSE AnalogFrom(a, block, dt, Len(block))

AnalogProcessBlock(a, block, dt) ==
    IF Len(block) = 0 THEN a ELSE AnalogFrom(a, block, dt, 1)

\* bool(self.mw.cfg.digitalOutputs[out_ch].normallyOpen), True when the index raises
NormallyOpenOf(no_cfg, out_ch) ==
    LET n == Len(no_cfg) IN
    IF out_ch >= 0 /\ out_ch < n THEN no_cfg[out_ch + 1]
    ELSE IF out_ch < 0 /\ out_ch >= -n THEN no_cfg[out_ch + n + 1]
    ELSE TRUE

\* PIDManager._rebuild_instances: the new dloops and aloops
RECURSIVE RebuildD(_, _, _, _)
RebuildD(ds, ls, no_cfg, k) ==
    IF k > Len(ls) THEN <<>>
    ELSE LET lp == ds[ls[k]] IN
         (IF lp.enabled /\ lp.kind = "digital"
          THEN <<DigitalPID(ls[k], lp, NormallyOpenOf(no_cfg, lp.out_ch))>>
          ELSE <<>>) \o RebuildD(ds, ls, no_cfg, k + 1)

RECURSIVE RebuildA(_, _, _)
RebuildA(ds, ls, k) ==
    IF k > Len(ls) THEN <<>>
    ELSE LET lp == ds[ls[k]] IN
         (IF lp.enabled /\ lp.kind = "analog"
          THEN <<AnalogPID(ls[k], lp,
                           IF lp.out_min # None THEN lp.out_min ELSE -10,
                           IF lp.out_max # None THEN lp.out_max ELSE 10)>>
          ELSE <<>>) \o RebuildA(ds, ls, k + 1)

\* PIDManager.reset_states
ResetAllD(dl) == [k \in 1..Len(dl) |-> DigitalReset(dl[k])]
ResetAllA(al) == [k \in 1..Len(al) |-> AnalogReset(al[k])]

\* A block is held channel by channel: arr[ch + 1] is the run of channel ch.
\* ai_block_2d = arr.T is a view of it, ai_block_2d[:, ch] = arr[ch + 1] and
\* ai_block_2d.shape[1] = Len(arr).  No block (None) is <<>>.
\* The input run PIDManager.process_block selects for a loop, <<>> when the
\* loop is skipped.
Selected_first(lp, ai_block_2d, tc_block_2d) ==
    IF lp.src = "tc" /\ Len(tc_block_2d) # 0 THEN <<tc_block_2d[1]>>
    ELSE IF Len(ai_block_2d) # 0 THEN <<ai_block_2d[1]>>
    ELSE <<>>

Selected(lp, ai_block_2d, tc_block_2d) ==
    LET n_ai == Len(ai_block_2d)
        n_tc == Len(tc_block_2d)
    IN
    IF lp.src = "tc" /\ n_tc # 0 /\ 0 <= lp.ai_ch /\ lp.ai_ch < n_tc
    THEN <<tc_block_2d[lp.ai_ch + 1]>>
    ELSE IF lp.src = "ai" /\ n_ai # 0 /\ 0 <= lp.ai_ch /\ lp.ai_ch < n_ai
    THEN <<ai_block_2d[lp.ai_ch + 1]>>
    ELSE <<>>

\* PIDManager.process_block over the instances of one list, from instance k on:
\* the instances it leaves and the command map it fills.  A command is kept
\* with the identity of the definition whose instance produced it.
\* the instance x after its process_block on the run sel, <<>> when it is skipped
Processed1(x, sel, dt) ==
    IF sel = <<>> THEN x
    ELSE IF x.kind = "digital" THEN DigitalProcessBlock(x, sel[1], dt)
    ELSE AnalogProcessBlock(x, sel[1], dt)

Commanded_keep_first(out, y, out_ch, sel) ==
    IF sel = <<>> THEN out
    ELSE out @@ (out_ch :> [v |-> (IF y.kind = "digital" THEN y.last_do_bit ELSE y.last_ao),
                            defn |-> y.defn])

\* do_cmds / ao_cmds after the instance, now y, ran on the run sel
Commanded(out, y, out_ch, sel) ==
    IF sel = <<>> THEN out
    ELSE (out_ch :> [v |-> (IF y.kind = "digital" THEN y.last_do_bit ELSE y.last_ao),
                     defn |-> y.defn]) @@ out

RECURSIVE ProcessList(_, _, _, _, _, _, _)

\* the rest of the pass once instance k has run and is y
ProcessNext(insts, y, out, ds, ai_block_2d, tc_block_2d, dt, k) ==
    ProcessList([insts EXCEPT ![k] = y],
                Commanded(out, y, ds[y.defn].out_ch,
                          Selected(ds[y.defn], ai_block_2d, tc_block_2d)),
                ds, ai_block_2d, tc_block_2d, dt, k + 1)

ProcessList(insts, out, ds, ai_block_2d, tc_block_2d, dt, k) ==
    IF k > Len(insts) THEN [insts |-> insts, cmds |-> out]
    ELSE ProcessNext(insts,
                     Processed1(insts[k],
                                Selected(ds[insts[k].defn], ai_block_2d, tc_block_2d), dt),
                     out, ds, ai_block_2d, tc_block_2d, dt, k)

NoCmds == [do |-> <<>>, ao |-> <<>>]

\* what PIDManager.process_block leaves and returns, rd and ra the passes over
\* dloops and aloops
Results(rd, ra) ==
    [dloops |-> rd.insts, aloops |-> ra.insts, cmds |-> [do |-> rd.cmds, ao |-> ra.cmds]]

\* PIDManager.process_block
process_block(dl, al, ds, ai_block_2d, tc_block_2d, dt) ==
    Results(ProcessList(dl, <<>>, ds, ai_block_2d, tc_block_2d, dt, 1),
            ProcessList(al, <<>>, ds, ai_block_2d, tc_block_2d, dt, 1))

\* ------------------------------------------------ one loop under test (SpecPid)
PvSet == {5, 40}                     \* input samples
DtSet == {-1, 0, 1, 2}               \* sample periods handed to process_block
ErrClamps == {<<None, None>>, <<-3, 3>>}
IClamps == {<<None, None>>, <<-2, 2>>, <<1, 4>>, <<2, -2>>}
OutClamps == {<<None, None>>, <<2, 8>>, <<None, -20>>}

TargetKp == {<<50, 1>>, <<0, 100>>}  \* (target, kp)

PidLoopDefs ==
    { [enabled |-> TRUE, kind |-> k, ai_ch |-> 0, out_ch |-> 0, target |-> tk[1],
       kp |-> tk[2], ki |-> i, kd |-> d, out_min |-> oc[1], out_max |-> oc[2],
       err_min |-> ec[1], err_max |-> ec[2], i_min |-> ic[1], i_max |-> ic[2],
       src |-> "ai"] :
      k \in {"digital", "analog"}, tk \in TargetKp, i \in {0, 1},
      d \in {0, 2}, oc \in OutClamps, ec \in ErrClamps, ic \in IClamps }

Blocks == UNION { [1..m -> PvSet] : m \in 1..MaxBlockLen }

AllInsts == dloops \o aloops

\* --------------------------------------------------------- plot histories
\* MainWindow keeps one time axis and one history per analog input, digital
\* output, analog output and thermocouple.  A buffer is modelled by its
\* maxlen (None for a plain list) and its length n: extending, clearing and
\* rebuilding depend on nothing else.
HistFloor == 256         \* _mk_deque: cap = max(256, ...)
HeadroomNum == 5         \* _history_headroom = 1.25 = HeadroomNum / HeadroomDen
HeadroomDen == 4
NumAiHist == 8
NumDoHist == 8
NumAoHist == 2
MaxBatches == 8          \* _loop: _drain_chunks(max_batches=8)
MicroPerSec == 1000000   \* sample_period is kept in microseconds
DefaultRateHz == 100     \* AppConfig().sampleRateHz
DefaultSpan == 5         \* time_window_s = 5.0

MaxQueue == 2            \* payloads waiting in _chunk_queue
MaxAxisSamples == 750    \* samples put on one time axis before it is cleared

HistRates == {100, 200}       \* cfg.sampleRateHz of the configurations used
HistSpans == {2, 5}           \* spans the charts ask for, in seconds
TcCounts == {0, 2}            \* thermocouples of the configurations used
HistBlockLens == {250}        \* M of the payloads the worker emits

plain_list == [maxlen |-> None, n |-> 0]
deque(maxlen) == [maxlen |-> maxlen, n |-> 0]

\* list.extend / deque.extend of M values: a full deque drops from the left
extend_keep(h, M) == [h EXCEPT !.n = @ + M]

extend(h, M) == [h EXCEPT !.n = IF h.maxlen = None THEN @ + M ELSE Min2(h.maxlen, @ + M)]

clear(h) == [h EXCEPT !.n = 0]

\* 1.0 / max(1e-6, rate), for the positive rates of HistRates
period_of(rate) == MicroPerSec \div rate

_effective_rate_hz(period, rate) == IF period > 0 THEN MicroPerSec \div period ELSE rate

\* int(math.ceil(rate * span_s * 1.25)) with rate = max(1.0, effective rate)
_target_history_len(period, rate, span_s) ==
    (Max2(1, _effective_rate_hz(period, rate)) * span_s * HeadroomNum + HeadroomDen - 1)
        \div HeadroomDen

history_cap(period, rate, span_s) == Max2(HistFloor, _target_history_len(period, rate, span_s))

\* redq: deque(data[-maxlen:], maxlen=maxlen)
redq(seq, maxlen) == [maxlen |-> maxlen, n |-> Min2(seq.n, maxlen)]

\* The values of the time axis, in microseconds, are kept as the maximal runs
\* of equally spaced values they consist of: <<[t0, step, n], ...>>.
last_of(vals) == vals[Len(vals)].t0 + (vals[Len(vals)].n - 1) * vals[Len(vals)].step

\* the values once a block of M values from start on, sp apart, is appended
append_block(vals, start, sp, M) ==
    IF vals # <<>> /\ vals[Len(vals)].step = sp /\ start = last_of(vals) + sp
    THEN [vals EXCEPT ![Len(vals)].n = @ + M]
    ELSE Append(vals, [t0 |-> start, step |-> sp, n |-> M])

\* the values once the k oldest are gone
RECURSIVE drop_left(_, _)
drop_left(vals, k) ==
    IF k <= 0 \/ vals = <<>> THEN vals
    ELSE IF k >= vals[1].n THEN drop_left(Tail(vals), k - vals[1].n)
    ELSE <<[vals[1] EXCEPT !.t0 = @ + k * vals[1].step, !.n = @ - k]>> \o Tail(vals)

x_deque(maxlen) == [maxlen |-> maxlen, n |-> 0, vals |-> <<>>]

x_start_zero(vals, sp) == 0

\* start of the next block in _drain_chunks: 0.0 on an empty axis, else last_x + sp
x_start(vals, sp) == IF vals = <<>> THEN 0 ELSE last_of(vals) + sp

\* ai_hist_x.extend(x_block.tolist())
x_extend(h, M, sp) ==
    [maxlen |-> h.maxlen,
     n |-> Min2(h.maxlen, h.n + M),
     vals |-> drop_left(append_block(h.vals, x_start(h.vals, sp), sp, M), h.n + M - h.maxlen)]

x_redq(h, maxlen) ==
    [maxlen |-> maxlen, n |-> Min2(h.n, maxlen), vals |-> drop_left(h.vals, h.n - maxlen)]

x_clear(h) == [h EXCEPT !.n = 0, !.vals = <<>>]

redq_all(seqs, maxlen) == [i \in 1..Len(seqs) |-> redq(seqs[i], maxlen)]

_rebuild_histories_for_span(h, cap) ==
    [ai_hist_x |-> x_redq(h.ai_hist_x, cap),
     ai_hist_y |-> redq_all(h.ai_hist_y, cap),
     do_hist_y |-> redq_all(h.do_hist_y, cap),
     ao_hist_y |-> redq_all(h.ao_hist_y, cap),
     tc_hist_y |-> redq_all(h.tc_hist_y, cap)]

\* _apply_cfg_to_ui, thermocouple part: one fresh _mk_deque() per configured
\* thermocouple replaces the thermocouple histories
_apply_cfg_to_ui(h, n_tc, cap) == [h EXCEPT !.tc_hist_y = [i \in 1..n_tc |-> deque(cap)]]

\* "Reset histories" of _act_connect and _act_apply_config
clear_scan_histories(h) ==
    [h EXCEPT !.ai_hist_x = x_clear(@),
              !.ai_hist_y = [i \in 1..Len(@) |-> clear(@[i])],
              !.do_hist_y = [i \in 1..Len(@) |-> clear(@[i])]]

\* one payload of M samples appended by _drain_chunks at sample period sp;
\* tc_read tells whether the E-TC read returned a block
extend_all(seqs, M) == [i \in 1..Len(seqs) |-> extend(seqs[i], M)]

drain_payload(h, M, tc_read, sp) ==
    [ai_hist_x |-> x_extend(h.ai_hist_x, M, sp),
     tc_hist_y |-> IF tc_read THEN extend_all(h.tc_hist_y, M) ELSE h.tc_hist_y,
     ai_hist_y |-> extend_all(h.ai_hist_y, M),
     do_hist_y |-> extend_all(h.do_hist_y, M),
     ao_hist_y |-> extend_all(h.ao_hist_y, M)]

RECURSIVE drain_from_twice(_, _, _, _, _)
drain_from_twice(h, q, reads, k, sp) ==
    IF k > Len(reads) THEN h
    ELSE drain_from_twice(drain_payload(drain_payload(h, q[k].M, reads[k], sp),
                                        q[k].M, reads[k], sp),
                          q, reads, k + 1, sp)

\* the histories after the payloads q[k], q[k+1], ... of one pass; the
\* histories reached so far are taken as one value (v) before the next
\* payload is appended to them
RECURSIVE drain_from(_, _, _, _, _)
drain_from(h, q, reads, k, sp) ==
    IF k > Len(reads) THEN h
    ELSE CHOOSE r \in {drain_from(drain_payload(v, q[k].M, reads[k], sp), q, reads, k + 1, sp) :
                           v \in {h}} : TRUE

batches_all(q) == Len(q)

batches_none(q) == 0

\* the payloads one _drain_chunks pass pops
batches(q) == Min2(Len(q), MaxBatches)

\* MainWindow.__init__: the histories are built for the default rate and
\* span, the configuration in use is applied, the analog-output histories
\* are then replaced by plain lists
InitHist(rate, n_tc) ==
    /\ cfg_rate = rate
    /\ cfg_tcs = n_tc
    /\ daq_connected = FALSE
    /\ acq_running = FALSE
    /\ etc_connected = FALSE
    /\ sample_period = period_of(DefaultRateHz)
    /\ time_window_s = DefaultSpan
    /\ chunk_queue = <<>>
    /\ hist = [ai_hist_x |-> x_deque(history_cap(period_of(DefaultRateHz), DefaultRateHz, DefaultSpan)),
               ai_hist_y |-> [i \in 1..NumAiHist |->
                                deque(history_cap(period_of(DefaultRateHz), DefaultRateHz, DefaultSpan))],
               do_hist_y |-> [i \in 1..NumDoHist |->
                                deque(history_cap(period_of(DefaultRateHz), DefaultRateHz, DefaultSpan))],
               ao_hist_y |-> [i \in 1..NumAoHist |-> plain_list],
               tc_hist_y |-> [i \in 1..n_tc |->
                                deque(history_cap(period_of(DefaultRateHz), DefaultRateHz, DefaultSpan))]]

InitUiIdle ==
    /\ dlg_open = FALSE /\ dlg_rows = <<>> /\ pid_table = <<>>
    /\ written = {} /\ reenabled = {} /\ first_steps = {}
    /\ step_call = <<>>
    /\ block_call = <<>>
    /\ block_shape = NoBlock
    /\ lpf = NoLpf
    /\ worker = NoWorker
    /\ outs = NoOuts
    /\ shown = NoShown
    /\ script = NoScript

InitPidIdle ==
    /\ InitUiIdle
    /\ cfg_no = [ch \in 1..NumDO |-> TRUE]
    /\ defs = [id \in DefIds |-> FreeDef]
    /\ loops = <<>> /\ dloops = <<>> /\ aloops = <<>>
    /\ cmds = NoCmds
    /\ InitHist(DefaultRateHz, 0)

InitPid ==
    /\ op = "init"
    /\ InitDriver
    /\ InitUiIdle
    /\ InitHist(DefaultRateHz, 0)
    /\ \E b \in BOOLEAN : cfg_no = [ch \in 1..NumDO |-> b]
    /\ \E lp \in PidLoopDefs :
          /\ lp.kind = "digital" => lp.out_min = None /\ lp.out_max = None
          /\ defs = [id \in DefIds |-> IF id = 1 THEN lp ELSE FreeDef]
    /\ loops = <<1>>
    /\ dloops = RebuildD(defs, loops, cfg_no, 1)
    /\ aloops = RebuildA(defs, loops, 1)
    /\ cmds = NoCmds

\* a block of one channel goes through PIDManager.process_block
PidProcessBlock(block, dt) ==
    \E r \in {process_block(dloops, aloops, defs, <<block>>, <<>>, dt)} :
    /\ \A k \in 1..Len(r.dloops) : r.dloops[k].core.i \in -MaxAbsI..MaxAbsI
    /\ \A k \in 1..Len(r.aloops) : r.aloops[k].core.i \in -MaxAbsI..MaxAbsI
    /\ op' = "process_block"
    /\ dloops' = r.dloops
    /\ aloops' = r.aloops
    /\ cmds' = r.cmds
    /\ block_shape' = shape_of(<<block>>, <<>>)
    /\ UNCHANGED <<cfg_no, defs, loops, scanVars, uiVars, histVars, step_call, block_call, lpf, worker, outs, shown, script>>

\* PIDManager.reset_states
PidResetStates ==
    /\ op' = "reset_states"
    /\ dloops' = ResetAllD(dloops)
    /\ aloops' = ResetAllA(aloops)
    /\ UNCHANGED <<cfg_no, defs, loops, cmds, notPid>>

NextPid ==
    \/ \E block \in Blocks, dt \in DtSet : PidProcessBlock(block, dt)
    \/ PidResetStates

SpecPid == InitPid /\ [][NextPid]_vars

\* ------------------------------------------ one filter (SpecFilter)
MaxChunk == 2            \* samples in one chunk passed to process_chunk

LpfCutoffs == {-5, 0, 10, 25}
LpfRates == {100, 200}
LpfSamples == {0, 20}
Chunks == UNION { [1..m -> LpfSamples] : m \in 0..MaxChunk }

lpfFrame == <<scanVars, pidVars, uiVars, histVars, step_call, block_call, block_shape, worker, outs, shown, script>>

\* OnePoleLPF(cutoff_hz, fs_hz)
LpfNew(cutoff_hz, fs_hz) ==
    /\ op' = "lpf_new"
    /\ lpf' = [f |-> OnePoleLPF(cutoff_hz, fs_hz), before |-> lpf.f, x |-> <<>>, y |-> <<>>]
    /\ UNCHANGED lpfFrame

LpfSetFs(fs_hz) ==
    /\ op' = "set_fs"
    /\ lpf' = [f |-> set_fs(lpf.f, fs_hz), before |-> lpf.f, x |-> <<>>, y |-> <<>>]
    /\ UNCHANGED lpfFrame

LpfSetCutoff(cutoff_hz) ==
    /\ op' = "set_cutoff"
    /\ lpf' = [f |-> set_cutoff(lpf.f, cutoff_hz), before |-> lpf.f, x |-> <<>>, y |-> <<>>]
    /\ UNCHANGED lpfFrame

LpfReset ==
    /\ op' = "lpf_reset"
    /\ lpf' = [f |-> lpf_reset(lpf.f), before |-> lpf.f, x |-> <<>>, y |-> <<>>]
    /\ UNCHANGED lpfFrame

LpfProcessChunk(x_arr) ==
    /\ op' = "process_chunk"
    /\ lpf' = [f |-> process_chunk(lpf.f, x_arr).f, before |-> lpf.f,
               x |-> x_arr, y |-> process_chunk(lpf.f, x_arr).y]
    /\ UNCHANGED lpfFrame

NextFilter ==
    \/ \E c \in LpfCutoffs, fs \in LpfRates : LpfNew(c, fs)
    \/ \E fs \in LpfRates : LpfSetFs(fs)
    \/ \E c \in LpfCutoffs : LpfSetCutoff(c)
    \/ LpfReset
    \/ \E x_arr \in Chunks : LpfProcessChunk(x_arr)

InitFilter == op = "init" /\ InitDriver /\ InitPidIdle

SpecFilter == InitFilter /\ [][NextFilter]_vars

\* ------------------------------------------ one block at a time (SpecBlock)
\* the same call, kept with what went into it: the instances before it, the
\* block and dt
PidBlock(block, dt) ==
    \E r \in {process_block(dloops, aloops, defs, <<block>>, <<>>, dt)} :
    /\ \A k \in 1..Len(r.dloops) : r.dloops[k].core.i \in -MaxAbsI..MaxAbsI
    /\ \A k \in 1..Len(r.aloops) : r.aloops[k].core.i \in -MaxAbsI..MaxAbsI
    /\ op' = "block"
    /\ dloops' = r.dloops
    /\ aloops' = r.aloops
    /\ cmds' = r.cmds
    /\ block_call' = [insts |-> AllInsts, block |-> block, dt |-> dt]
    /\ block_shape' = shape_of(<<block>>, <<>>)
    /\ UNCHANGED <<cfg_no, defs, loops, scanVars, uiVars, histVars, step_call, lpf, worker, outs, shown, script>>

BlockDts == {1, 2}

NextBlock ==
    \/ \E block \in Blocks, dt \in BlockDts : PidBlock(block, dt)
    \/ PidResetStates

\* loops without an output range of their own, the integral free or clamped
\* to -2..2
InitBlock ==
    /\ InitPid
    /\ defs[1].out_min = None /\ defs[1].out_max = None
    /\ defs[1].i_min \in {None, -2}

SpecBlock == InitBlock /\ [][NextBlock]_vars

\* ----------------------------------------------- one step at a time (SpecStep)
\* a block of one sample: the loop under test makes one _PIDCore.step call
PidStep(pv, dt) ==
    \E r \in {process_block(dloops, aloops, defs, <<<<pv>>>>, <<>>, dt)} :
    /\ \A k \in 1..Len(r.dloops) : r.dloops[k].core.i \in -MaxAbsI..MaxAbsI
    /\ \A k \in 1..Len(r.aloops) : r.aloops[k].core.i \in -MaxAbsI..MaxAbsI
    /\ op' = "step"
    /\ dloops' = r.dloops
    /\ aloops' = r.aloops
    /\ cmds' = r.cmds
    /\ step_call' = [core |-> AllInsts[1].core, pv |-> pv, dt |-> dt]
    /\ block_shape' = shape_of(<<<<pv>>>>, <<>>)
    /\ UNCHANGED <<cfg_no, defs, loops, scanVars, uiVars, histVars, block_call, lpf, worker, outs, shown, script>>

NextStep ==
    \/ \E pv \in PvSet, dt \in DtSet : PidStep(pv, dt)
    \/ PidResetStates

SpecStep == InitPid /\ [][NextStep]_vars

\* ------------------------------------------------------------- scan reader
\* both callers scan from channel 0 (main.py:831, main.py:1152)
LowChan == 0

\* sample rates asked of the board, in samples per time unit
RateSet == {1, 2}

NextScan ==
    \/ \E high \in 0..MaxHigh, rate \in RateSet, bs \in 0..MaxBlock :
          \E actual \in {0, rate} : StartAiScan(LowChan, high, rate, bs, actual)
    \/ StartAiScanFail
    \/ stop_ai_scan
    \/ HwWrite
    \/ read_ai_new

InitScan == op = "init" /\ InitDriver /\ InitPidIdle

SpecScan == InitScan /\ [][NextScan]_vars

\* ---------------------------------------- PID manager under its editors (Spec)
Range(s) == {s[k] : k \in 1..Len(s)}
RemoveAt(s, k) == SubSeq(s, 1, k - 1) \o SubSeq(s, k + 1, Len(s))

\* identities the list or an instance holds; an object nothing holds is gone
Referenced(ls, dl, al) ==
    Range(ls) \cup {dl[k].defn : k \in 1..Len(dl)} \cup {al[k].defn : k \in 1..Len(al)}

Collect(ds, ls, dl, al) ==
    [id \in DefIds |-> IF id \in Referenced(ls, dl, al) THEN ds[id] ELSE FreeDef]

\* the PIDLoopDef PIDSetupDialog._on_add creates
NewLoopDef ==
    [enabled |-> TRUE, kind |-> "digital", ai_ch |-> 0, out_ch |-> 0, target |-> 0,
     kp |-> 1, ki |-> 0, kd |-> 0, out_min |-> None, out_max |-> None,
     err_min |-> None, err_max |-> None, i_min |-> None, i_max |-> None,
     src |-> "ai"]

\* the loops of PID.json, the file loaded at startup
PidFile ==
    << [enabled |-> TRUE, kind |-> "digital", ai_ch |-> 0, out_ch |-> 0, target |-> 50,
        kp |-> 1, ki |-> 1, kd |-> 0, out_min |-> None, out_max |-> None,
        err_min |-> None, err_max |-> None, i_min |-> -2, i_max |-> 2,
        src |-> "ai"] >>

\* the loops of another PID file the user can load
PidFile2 ==
    << [enabled |-> TRUE, kind |-> "digital", ai_ch |-> 0, out_ch |-> 0, target |-> 0,
        kp |-> 1, ki |-> 0, kd |-> 0, out_min |-> None, out_max |-> None,
        err_min |-> None, err_max |-> None, i_min |-> None, i_max |-> None,
        src |-> "ai"],
       [enabled |-> FALSE, kind |-> "analog", ai_ch |-> 1, out_ch |-> 1, target |-> 0,
        kp |-> 100, ki |-> 0, kd |-> 0, out_min |-> None, out_max |-> None,
        err_min |-> None, err_max |-> None, i_min |-> None, i_max |-> None,
        src |-> "ai"] >>

PidFiles == {PidFile, PidFile2}

\* PIDManager.load_file on a file holding the loops f: the fields it assigns
load_file(f) ==
    LET ls == [k \in 1..Len(f) |-> k]
        ds == [id \in DefIds |-> IF id <= Len(f) THEN f[id] ELSE FreeDef]
    IN [loops |-> ls, defs |-> ds,
        dloops |-> RebuildD(ds, ls, cfg_no, 1), aloops |-> RebuildA(ds, ls, 1)]

\* PIDManager.is_do_controlled and is_ao_controlled
is_do_controlled(ch) ==
    \E k \in 1..Len(loops) :
        LET lp == defs[loops[k]] IN
        lp.enabled /\ lp.kind = "digital" /\ lp.out_ch = ch

is_ao_controlled(ch) ==
    \E k \in 1..Len(loops) :
        LET lp == defs[loops[k]] IN
        lp.enabled /\ lp.kind = "analog" /\ lp.out_ch = ch

\* MainWindow._pid_rebuild on definitions ds: _rebuild_instances then reset_states
pid_rebuild(ds, ls) ==
    [dloops |-> ResetAllD(RebuildD(ds, ls, cfg_no, 1)),
     aloops |-> ResetAllA(RebuildA(ds, ls, 1))]

\* the definitions whose enabled flag went from False to True between ds and ds1
NewlyEnabled(ds, ds1) == {id \in DefIds : ~ds[id].enabled /\ ds1[id].enabled}
StillEnabled(ds1, s) == {id \in s : ds1[id].enabled}

\* the commands, writes and first steps of a block are those of the last
\* operation: any other operation leaves none
NoBlockResults == cmds' = NoCmds /\ written' = {} /\ first_steps' = {}

\* --- PIDSetupDialog
\* the entries of the OUT selector: D0..D7, A0..A1
DlgOutItems ==
    {<<"digital", ch>> : ch \in 0..7} \cup {<<"analog", ch>> : ch \in 0..1}

\* the entries the user picks in the model
DlgOutChoices == {<<"digital", 0>>, <<"analog", 1>>}

\* PIDSetupDialog._fill_row(r, lp): the handlers of the row are bound to r
fill_row(r, lp) ==
    LET cur == <<IF lp.kind = "digital" THEN "digital" ELSE "analog", lp.out_ch>> IN
    [row |-> r, cb |-> lp.enabled,
     out |-> IF cur \in DlgOutItems THEN cur ELSE <<"digital", 0>>]

\* MainWindow._act_pid_setup up to dlg.exec(): pid_path is PID.json, which is
\* loaded again when the list is empty
ActPidSetup ==
    /\ ~dlg_open
    /\ op' = "pid_setup"
    /\ NoBlockResults
    /\ dlg_open' = TRUE
    /\ IF loops = <<>>
       THEN LET r == load_file(PidFile) IN
            /\ loops' = r.loops /\ defs' = r.defs
            /\ dloops' = r.dloops /\ aloops' = r.aloops
            /\ reenabled' = {}
       ELSE UNCHANGED <<defs, loops, dloops, aloops, reenabled>>
    /\ dlg_rows' = [k \in 1..Len(loops') |-> fill_row(k - 1, defs'[loops'[k]])]
    /\ UNCHANGED <<cfg_no, pid_table, scanVars, histVars, step_call, block_call, block_shape, lpf, worker, outs, shown, script>>

\* PIDSetupDialog._on_add
DlgOnAdd ==
    /\ dlg_open
    /\ DefIds \ Referenced(loops, dloops, aloops) # {}
    /\ LET free == DefIds \ Referenced(loops, dloops, aloops)
           id == CHOOSE i \in free : \A j \in free : i <= j
       IN /\ defs' = [defs EXCEPT ![id] = NewLoopDef]
          /\ loops' = Append(loops, id)
          /\ dlg_rows' = Append(dlg_rows, fill_row(Len(dlg_rows), NewLoopDef))
    /\ op' = "dlg_add"
    /\ NoBlockResults
    /\ UNCHANGED <<cfg_no, dloops, aloops, dlg_open, pid_table, reenabled, scanVars, histVars, step_call, block_call, block_shape, lpf, worker, outs, shown, script>>

\* PIDSetupDialog._on_remove with r the current row
DlgOnRemove(r) ==
    /\ dlg_open
    /\ r >= 0 /\ r < Len(dlg_rows)
    /\ loops' = RemoveAt(loops, r + 1)
    /\ dlg_rows' = RemoveAt(dlg_rows, r + 1)
    /\ defs' = Collect(defs, loops', dloops, aloops)
    /\ reenabled' = reenabled \cap Referenced(loops', dloops, aloops)
    /\ op' = "dlg_remove"
    /\ NoBlockResults
    /\ UNCHANGED <<cfg_no, dloops, aloops, dlg_open, pid_table, scanVars, histVars, step_call, block_call, block_shape, lpf, worker, outs, shown, script>>

\* the user toggles the Enable box of table row t (from 1); its handler,
\* PIDSetupDialog._on_enable(row), runs with the row number bound at fill time
\* and reads the box of that row.  A row number past the list ends the program.
DlgOnEnable(t) ==
    /\ dlg_open
    /\ t \in 1..Len(dlg_rows)
    /\ LET rows1 == [dlg_rows EXCEPT ![t].cb = ~@]
           row == dlg_rows[t].row
       IN /\ row < Len(loops)
          /\ LET id == loops[row + 1]
                 ds1 == [defs EXCEPT ![id].enabled = rows1[row + 1].cb]
             IN /\ defs' = ds1
                /\ reenabled' = StillEnabled(ds1, reenabled) \cup NewlyEnabled(defs, ds1)
          /\ dlg_rows' = rows1
    /\ op' = "dlg_enable"
    /\ NoBlockResults
    /\ UNCHANGED <<cfg_no, loops, dloops, aloops, dlg_open, pid_table, scanVars, histVars, step_call, block_call, block_shape, lpf, worker, outs, shown, script>>

\* the user picks another OUT entry in table row t; PIDSetupDialog._on_out(row)
DlgOnOut(t, item) ==
    /\ dlg_open
    /\ t \in 1..Len(dlg_rows)
    /\ item # dlg_rows[t].out
    /\ LET rows1 == [dlg_rows EXCEPT ![t].out = item]
           row == dlg_rows[t].row
       IN /\ row < Len(loops)
          /\ LET id == loops[row + 1]
                 txt == rows1[row + 1].out
             IN defs' = [defs EXCEPT ![id].kind = txt[1], ![id].out_ch = txt[2]]
          /\ dlg_rows' = rows1
    /\ op' = "dlg_out"
    /\ NoBlockResults
    /\ UNCHANGED <<cfg_no, loops, dloops, aloops, dlg_open, pid_table, reenabled, scanVars, histVars, step_call, block_call, block_shape, lpf, worker, outs, shown, script>>

\* --- MainWindow.pid_table
ClampInt(v, lo, hi) == IF v < lo THEN lo ELSE IF v > hi THEN hi ELSE v

\* one row of MainWindow._pid_refresh_table_structure: Enable box, Type
\* selector, OUT spin box with its upper limit
table_row(lp) ==
    LET top == IF lp.kind = "analog" THEN 1 ELSE 7 IN
    [cb |-> lp.enabled,
     typ |-> IF lp.kind \in {"digital", "analog"} THEN lp.kind ELSE "digital",
     sp_out |-> ClampInt(lp.out_ch, 0, top), sp_max |-> top]

pid_refresh_table_structure(ds, ls) == [k \in 1..Len(ls) |-> table_row(ds[ls[k]])]

\* the OUT values the user sets in the status table
TableOutChoices == {0, 1, 2}

\* PIDSetupDialog.accept, then the Accepted branch of MainWindow._act_pid_setup.
\* The number cells are left as filled, so accept reads back what the
\* definitions hold; the changes are not saved to a file.
DlgAccept ==
    /\ dlg_open
    /\ LET r == pid_rebuild(defs, loops) IN
          /\ dloops' = r.dloops
          /\ aloops' = r.aloops
          /\ defs' = Collect(defs, loops, r.dloops, r.aloops)
          /\ reenabled' = reenabled \cap Referenced(loops, r.dloops, r.aloops)
    /\ pid_table' = pid_refresh_table_structure(defs, loops)
    /\ dlg_open' = FALSE
    /\ dlg_rows' = <<>>
    /\ op' = "dlg_accept"
    /\ NoBlockResults
    /\ UNCHANGED <<cfg_no, loops, scanVars, histVars, step_call, block_call, block_shape, lpf, worker, outs, shown, script>>

\* the dialog is cancelled or closed: MainWindow._act_pid_setup does nothing more
DlgReject ==
    /\ dlg_open
    /\ dlg_open' = FALSE
    /\ dlg_rows' = <<>>
    /\ op' = "dlg_reject"
    /\ NoBlockResults
    /\ UNCHANGED <<cfg_no, defs, loops, dloops, aloops, pid_table, reenabled, scanVars, histVars, step_call, block_call, block_shape, lpf, worker, outs, shown, script>>

\* the definitions ds1 replace defs and MainWindow._pid_rebuild runs
TableEdit(ds1) ==
    LET r == pid_rebuild(ds1, loops) IN
    /\ dloops' = r.dloops
    /\ aloops' = r.aloops
    /\ defs' = Collect(ds1, loops, r.dloops, r.aloops)
    /\ reenabled' = (StillEnabled(ds1, reenabled) \cup NewlyEnabled(defs, ds1))
                        \cap Referenced(loops, r.dloops, r.aloops)

\* the handler raised on loops[row] and logged the error
TableEditFailed == UNCHANGED <<defs, dloops, aloops, reenabled>>

\* the user toggles the Enable box of status row r (from 1): _pid_on_enable_row
PidOnEnableRow(r) ==
    /\ ~dlg_open
    /\ r \in 1..Len(pid_table)
    /\ LET enabled == ~pid_table[r].cb IN
          /\ pid_table' = [pid_table EXCEPT ![r].cb = enabled]
          /\ IF r <= Len(loops)
             THEN TableEdit([defs EXCEPT ![loops[r]].enabled = enabled])
             ELSE TableEditFailed
    /\ op' = "pid_on_enable_row"
    /\ NoBlockResults
    /\ UNCHANGED <<cfg_no, loops, dlg_open, dlg_rows, scanVars, histVars, step_call, block_call, block_shape, lpf, worker, outs, shown, script>>

\* the user picks the other Type in status row r: _pid_on_type_changed, with
\* the _pid_on_out_changed that the narrowed OUT range fires from inside it
PidOnTypeChanged(r, text) ==
    /\ ~dlg_open
    /\ r \in 1..Len(pid_table)
    /\ text \in {"digital", "analog"} /\ text # pid_table[r].typ
    /\ IF r <= Len(loops)
       THEN LET top == IF text = "analog" THEN 1 ELSE 7
                out == ClampInt(pid_table[r].sp_out, 0, top)
                ds1 == [defs EXCEPT ![loops[r]].kind = text]
                ds2 == IF out # pid_table[r].sp_out
                       THEN [ds1 EXCEPT ![loops[r]].out_ch = out] ELSE ds1
            IN /\ pid_table' = [pid_table EXCEPT ![r].typ = text, ![r].sp_out = out,
                                                 ![r].sp_max = top]
               /\ TableEdit(ds2)
       ELSE /\ pid_table' = [pid_table EXCEPT ![r].typ = text]
            /\ TableEditFailed
    /\ op' = "pid_on_type_changed"
    /\ NoBlockResults
    /\ UNCHANGED <<cfg_no, loops, dlg_open, dlg_rows, scanVars, histVars, step_call, block_call, block_shape, lpf, worker, outs, shown, script>>

\* the user sets OUT of status row r to val: _pid_on_out_changed
PidOnOutChanged(r, val) ==
    /\ ~dlg_open
    /\ r \in 1..Len(pid_table)
    /\ val >= 0 /\ val <= pid_table[r].sp_max /\ val # pid_table[r].sp_out
    /\ pid_table' = [pid_table EXCEPT ![r].sp_out = val]
    /\ IF r <= Len(loops)
       THEN TableEdit([defs EXCEPT ![loops[r]].out_ch = val])
       ELSE TableEditFailed
    /\ op' = "pid_on_out_changed"
    /\ NoBlockResults
    /\ UNCHANGED <<cfg_no, loops, dlg_open, dlg_rows, scanVars, histVars, step_call, block_call, block_shape, lpf, worker, outs, shown, script>>

\* MainWindow._act_pid_load_json with PIDManager.load_file on file f
ActPidLoadJson(f) ==
    /\ ~dlg_open
    /\ LET r == load_file(f) IN
          /\ loops' = r.loops /\ defs' = r.defs
          /\ dloops' = r.dloops /\ aloops' = r.aloops
          /\ pid_table' = pid_refresh_table_structure(r.defs, r.loops)
    /\ reenabled' = {}
    /\ op' = "pid_load_json"
    /\ NoBlockResults
    /\ UNCHANGED <<cfg_no, dlg_open, dlg_rows, scanVars, histVars, step_call, block_call, block_shape, lpf, worker, outs, shown, script>>

\* MainWindow._act_pid_reset
ActPidReset ==
    /\ ~dlg_open
    /\ dloops' = ResetAllD(dloops)
    /\ aloops' = ResetAllA(aloops)
    /\ op' = "pid_reset"
    /\ NoBlockResults
    /\ UNCHANGED <<cfg_no, defs, loops, dlg_open, dlg_rows, pid_table, reenabled, scanVars, histVars, step_call, block_call, block_shape, lpf, worker, outs, shown, script>>

\* --- MainWindow._drain_chunks, the PID part for one block
\* the instances that take steps on the block
Stepping(insts, ai_block_2d, tc_block_2d) ==
    {k \in 1..Len(insts) : Selected(defs[insts[k].defn], ai_block_2d, tc_block_2d) # <<>>}

FirstSteps(insts, ai_block_2d, tc_block_2d) ==
    {[defn |-> insts[k].defn, i |-> insts[k].core.i, prev_err |-> insts[k].core.prev_err] :
        k \in {j \in Stepping(insts, ai_block_2d, tc_block_2d) : insts[j].defn \in reenabled}}

\* the keys of a command map in the order process_block inserted them: the
\* output channels of the stepping instances, each at its first occurrence
RECURSIVE key_order(_, _, _, _)
key_order(insts, stepping, acc, k) ==
    IF k > Len(insts) THEN acc
    ELSE key_order(insts, stepping,
                   IF k \in stepping /\ defs[insts[k].defn].out_ch \notin Range(acc)
                   THEN Append(acc, defs[insts[k].defn].out_ch)
                   ELSE acc,
                   k + 1)

\* self.do_state[idx] = ... and self.ao_value[idx] = ... raise IndexError
index_raises(idx, n) == idx >= n \/ idx < -n

\* applying the update of channel ch raises out of the PID part of the pass
raises_at(kind, ch) ==
    IF kind = "do" THEN is_do_controlled(ch) /\ index_raises(ch, NumDO)
    ELSE is_ao_controlled(ch) /\ index_raises(ch, NumAO)

\* position of the first update that raises, Len(keys) + 1 when none does
first_raise(kind, keys) ==
    CHOOSE k \in 1..(Len(keys) + 1) :
        /\ k = Len(keys) + 1 \/ raises_at(kind, keys[k])
        /\ \A j \in 1..(k - 1) : ~raises_at(kind, keys[j])

update_raises(kind, keys) == first_raise(kind, keys) <= Len(keys)

\* the writes the loop over a command map issues: those of the controlled
\* channels, up to the first update that raises
applied_updates(kind, updates, keys) ==
    {[kind |-> kind, ch |-> keys[k], v |-> updates[keys[k]].v, defn |-> updates[keys[k]].defn] :
        k \in {j \in 1..(first_raise(kind, keys) - 1) :
                  IF kind = "do" THEN is_do_controlled(keys[j]) ELSE is_ao_controlled(keys[j])}}

\* the blocks the worker hands over: n channels of m samples
DrainPv == {5}

DrainBlocks ==
    { [c \in 1..n |-> [k \in 1..m |-> v]] : n \in 1..2, m \in 1..MaxBlockLen, v \in DrainPv }

\* _drain_chunks, PID part of one payload (main.py:1396-1417).  The histories
\* the same pass extends are followed by Loop in SpecHist and stay at their
\* start values here.
DrainPid(arr, tc_block_2d, sp) ==
    \E r \in {process_block(dloops, aloops, defs, arr, tc_block_2d, sp)} :
    /\ dloops' = r.dloops
    /\ aloops' = r.aloops
    /\ cmds' = r.cmds
    /\ written' =
          applied_updates("do", r.cmds.do,
              key_order(dloops, Stepping(dloops, arr, tc_block_2d), <<>>, 1))
          \cup
          (IF update_raises("do",
                 key_order(dloops, Stepping(dloops, arr, tc_block_2d), <<>>, 1))
           THEN {}
           ELSE applied_updates("ao", r.cmds.ao,
                    key_order(aloops, Stepping(aloops, arr, tc_block_2d), <<>>, 1)))
    /\ first_steps' = FirstSteps(dloops, arr, tc_block_2d) \cup FirstSteps(aloops, arr, tc_block_2d)
    /\ reenabled' = reenabled \ ({dloops[k].defn : k \in Stepping(dloops, arr, tc_block_2d)}
                                 \cup {aloops[k].defn : k \in Stepping(aloops, arr, tc_block_2d)})
    /\ block_shape' = shape_of(arr, tc_block_2d)

DrainBlock(arr, tc_block_2d, sp) ==
    /\ DrainPid(arr, tc_block_2d, sp)
    /\ op' = "drain"
    /\ UNCHANGED <<cfg_no, defs, loops, dlg_open, dlg_rows, pid_table, scanVars, histVars, step_call, block_call, lpf, worker, outs, shown, script>>

\* MainWindow.__init__ with a PID.json in the working directory (main.py:407-422)
Init ==
    LET r == load_file(PidFile) IN
    /\ op = "init"
    /\ InitDriver
    /\ cfg_no = [ch \in 1..NumDO |-> TRUE]
    /\ loops = r.loops /\ defs = r.defs
    /\ dloops = r.dloops /\ aloops = r.aloops
    /\ cmds = NoCmds
    /\ pid_table = pid_refresh_table_structure(r.defs, r.loops)
    /\ dlg_open = FALSE /\ dlg_rows = <<>>
    /\ written = {} /\ reenabled = {} /\ first_steps = {}
    /\ step_call = <<>>
    /\ block_call = <<>>
    /\ block_shape = NoBlock
    /\ lpf = NoLpf
    /\ worker = NoWorker
    /\ outs = NoOuts
    /\ shown = NoShown
    /\ script = NoScript
    /\ InitHist(DefaultRateHz, 0)

\* the setup dialog is opened, edited and closed while blocks keep arriving
Next ==
    \/ ActPidSetup
    \/ DlgOnAdd
    \/ \E r \in 0..(Len(dlg_rows) - 1) : DlgOnRemove(r)
    \/ \E t \in 1..Len(dlg_rows) : DlgOnEnable(t)
    \/ \E t \in 1..Len(dlg_rows), item \in DlgOutChoices : DlgOnOut(t, item)
    \/ DlgAccept
    \/ DlgReject
    \/ \E arr \in DrainBlocks : DrainBlock(arr, <<>>, 1)

Spec == Init /\ [][Next]_vars

\* ------------------------------------------------ two loops, one output
\* PID files in which two enabled loops of one kind name the same output
\* channel; blocks of one or two analog channels arrive with or without a
\* thermocouple block.
DupDigital ==
    << [enabled |-> TRUE, kind |-> "digital", ai_ch |-> 0, out_ch |-> 0, target |-> 0,
        kp |-> 1, ki |-> 1, kd |-> 0, out_min |-> None, out_max |-> None,
        err_min |-> None, err_max |-> None, i_min |-> -2, i_max |-> 2,
        src |-> "ai"],
       [enabled |-> TRUE, kind |-> "digital", ai_ch |-> 0, out_ch |-> 0, target |-> 10,
        kp |-> 1, ki |-> 0, kd |-> 0, out_min |-> None, out_max |-> None,
        err_min |-> None, err_max |-> None, i_min |-> None, i_max |-> None,
        src |-> "tc"] >>

DupAnalog ==
    << [enabled |-> TRUE, kind |-> "analog", ai_ch |-> 1, out_ch |-> 1, target |-> 0,
        kp |-> 1, ki |-> 0, kd |-> 0, out_min |-> None, out_max |-> None,
        err_min |-> None, err_max |-> None, i_min |-> None, i_max |-> None,
        src |-> "ai"],
       [enabled |-> TRUE, kind |-> "analog", ai_ch |-> 0, out_ch |-> 1, target |-> 8,
        kp |-> 1, ki |-> 1, kd |-> 0, out_min |-> None, out_max |-> None,
        err_min |-> None, err_max |-> None, i_min |-> -2, i_max |-> 2,
        src |-> "ai"] >>

DupFiles == {DupDigital, DupAnalog}

DupTcPv == {7}

\* no thermocouple block, or one thermocouple held over the samples of arr
DupTcBlocks(arr) == {<<>>} \cup {<<[k \in 1..Len(arr[1]) |-> v]>> : v \in DupTcPv}

NextDup ==
    \/ \E f \in DupFiles : ActPidLoadJson(f)
    \/ ActPidReset
    \/ \E r \in 1..Len(pid_table) : PidOnEnableRow(r)
    \/ \E arr \in DrainBlocks : \E tc \in DupTcBlocks(arr) : DrainBlock(arr, tc, 1)

SpecDup == Init /\ [][NextDup]_vars

\* the status table is edited, files are loaded and the states reset while
\* blocks keep arriving
NextTable ==
    \/ \E r \in 1..Len(pid_table) : PidOnEnableRow(r)
    \/ \E r \in 1..Len(pid_table), text \in {"digital", "analog"} : PidOnTypeChanged(r, text)
    \/ \E r \in 1..Len(pid_table), val \in TableOutChoices : PidOnOutChanged(r, val)
    \/ \E f \in PidFiles : ActPidLoadJson(f)
    \/ ActPidReset
    \/ \E arr \in DrainBlocks : DrainBlock(arr, <<>>, 1)

SpecTable == Init /\ [][NextTable]_vars

\* ------------------------------------------------- history operations
\* The operations below leave the PID manager and the scan reader alone: no
\* PID loop is defined in SpecHist, so process_block returns two empty maps
\* for every payload and nothing is written to an output.
histFrame == <<scanVars, pidVars, uiVars, step_call, block_call, block_shape, lpf, worker, outs, shown, script>>

\* _act_connect, disconnect path: worker stopped and joined, devices dropped
ActDisconnect ==
    /\ daq_connected
    /\ op' = "disconnect"
    /\ daq_connected' = FALSE
    /\ acq_running' = FALSE
    /\ etc_connected' = FALSE
    /\ UNCHANGED <<cfg_rate, cfg_tcs, sample_period, time_window_s, chunk_queue, hist, histFrame>>

\* _act_connect, connect path: the scan starts at actual_rate, the E-TC
\* connects or not, the histories are rebuilt, the worker starts, the time
\* axis, the analog-input and the digital-output histories and the queue are
\* cleared
ActConnect(actual_rate, etc_ok) ==
    /\ ~daq_connected
    /\ op' = "connect"
    /\ daq_connected' = TRUE
    /\ etc_connected' = etc_ok
    /\ sample_period' = period_of(actual_rate)
    /\ hist' = clear_scan_histories(
                  _rebuild_histories_for_span(hist,
                      history_cap(period_of(actual_rate), cfg_rate, time_window_s)))
    /\ acq_running' = TRUE
    /\ chunk_queue' = <<>>
    /\ UNCHANGED <<cfg_rate, cfg_tcs, time_window_s, histFrame>>

\* _act_connect when start_ai_scan raises DaqError: the driver stays
\* connected, nothing else has happened yet
ActConnectScanFail ==
    /\ ~daq_connected
    /\ op' = "connect_fail"
    /\ daq_connected' = TRUE
    /\ UNCHANGED <<cfg_rate, cfg_tcs, acq_running, etc_connected, sample_period, time_window_s,
                   chunk_queue, hist, histFrame>>

\* the queue as _act_apply_config leaves it on a connected device: no payload
\* is removed; each is now one acquired before the reconfiguration
before_reconfig(q) == [k \in 1..Len(q) |-> [q[k] EXCEPT !.old = TRUE]]

\* _act_apply_config: the configuration is applied to the UI; with a
\* connected device the worker is stopped, the scan restarted (scan_ok), the
\* histories rebuilt, a new worker started and the time axis, the
\* analog-input and the digital-output histories cleared
ActApplyConfig(scan_ok) ==
    /\ op' = "apply_config"
    /\ IF ~daq_connected
       THEN /\ hist' = _apply_cfg_to_ui(hist, cfg_tcs,
                           history_cap(sample_period, cfg_rate, time_window_s))
            /\ UNCHANGED <<acq_running, sample_period, chunk_queue>>
       ELSE IF scan_ok
       THEN /\ sample_period' = period_of(cfg_rate)
            /\ hist' = clear_scan_histories(
                          _rebuild_histories_for_span(
                              _apply_cfg_to_ui(hist, cfg_tcs,
                                  history_cap(sample_period, cfg_rate, time_window_s)),
                              history_cap(period_of(cfg_rate), cfg_rate, time_window_s)))
            /\ acq_running' = TRUE
            /\ chunk_queue' = before_reconfig(chunk_queue)
       ELSE /\ hist' = _apply_cfg_to_ui(hist, cfg_tcs,
                           history_cap(sample_period, cfg_rate, time_window_s))
            /\ acq_running' = FALSE
            /\ chunk_queue' = before_reconfig(chunk_queue)
            /\ UNCHANGED sample_period
    /\ UNCHANGED <<cfg_rate, cfg_tcs, daq_connected, etc_connected, time_window_s, histFrame>>

\* the configuration becomes one of rate samples per second with n_tc
\* thermocouples and digital outputs that are normally open or not, and is
\* applied to the UI; the PID instances are not rebuilt
set_cfg(rate, n_tc, normallyOpen) ==
    /\ cfg_rate' = rate
    /\ cfg_tcs' = n_tc
    /\ cfg_no' = [ch \in 1..NumDO |-> normallyOpen]
    /\ hist' = _apply_cfg_to_ui(hist, n_tc, history_cap(sample_period, rate, time_window_s))
    /\ UNCHANGED <<daq_connected, acq_running, etc_connected, sample_period, time_window_s,
                   chunk_queue, defs, loops, dloops, aloops, cmds, scanVars, uiVars, step_call,
                   block_call, block_shape, lpf, worker, outs, shown, script>>

\* _act_load_cfg of a file holding that configuration
ActLoadCfg(rate, n_tc, normallyOpen) == op' = "load_cfg" /\ set_cfg(rate, n_tc, normallyOpen)

\* _act_edit_cfg / _act_edit_tc accepted with that configuration as result
ActEditCfg(rate, n_tc, normallyOpen) == op' = "edit_cfg" /\ set_cfg(rate, n_tc, normallyOpen)

\* _on_span_changed (also reached from _on_time_window)
OnSpanChanged(seconds) ==
    /\ op' = "span_changed"
    /\ time_window_s' = seconds
    /\ hist' = _rebuild_histories_for_span(hist, history_cap(sample_period, cfg_rate, seconds))
    /\ UNCHANGED <<cfg_rate, cfg_tcs, daq_connected, acq_running, etc_connected, sample_period,
                   chunk_queue, histFrame>>

_on_chunk_ready_front(q, payload) == <<payload>> \o q

\* _on_chunk_ready, run on the main thread for each chunkReady signal:
\* self._chunk_queue.append(payload)
_on_chunk_ready(q, payload) == Append(q, payload)

\* the running worker emits a payload of M samples per channel and
\* _on_chunk_ready appends it to the queue
OnChunkReady(M) ==
    /\ acq_running
    /\ op' = "chunk_ready"
    /\ chunk_queue' = _on_chunk_ready(chunk_queue, [M |-> M, old |-> FALSE])
    /\ UNCHANGED <<cfg_rate, cfg_tcs, daq_connected, acq_running, etc_connected, sample_period,
                   time_window_s, hist, histFrame>>

\* _loop: one timer pass pops up to MaxBatches payloads; tc_ok[k] tells
\* whether the E-TC read for the k-th payload succeeded
Loop(tc_ok) ==
    /\ chunk_queue # <<>>
    /\ DOMAIN tc_ok = 1..batches(chunk_queue)
    /\ op' = "loop"
    /\ hist' = drain_from(hist, chunk_queue,
                          [k \in DOMAIN tc_ok |-> etc_connected /\ Len(hist.tc_hist_y) > 0 /\ tc_ok[k]],
                          1, sample_period)
    /\ chunk_queue' = SubSeq(chunk_queue, batches(chunk_queue) + 1, Len(chunk_queue))
    /\ UNCHANGED <<cfg_rate, cfg_tcs, daq_connected, acq_running, etc_connected, sample_period,
                   time_window_s, histFrame>>

InitHistSpec ==
    /\ op = "init"
    /\ InitDriver
    /\ InitUiIdle
    /\ cfg_no = [ch \in 1..NumDO |-> TRUE]
    /\ defs = [id \in DefIds |-> FreeDef]
    /\ loops = <<>> /\ dloops = <<>> /\ aloops = <<>>
    /\ cmds = NoCmds
    /\ \E rate \in HistRates, n_tc \in TcCounts : InitHist(rate, n_tc)

\* samples the time axis has taken since it was last empty, and samples queued
RECURSIVE queued_samples(_)
queued_samples(q) == IF q = <<>> THEN 0 ELSE q[1].M + queued_samples(Tail(q))

axis_samples(h) ==
    IF h.ai_hist_x.vals = <<>> THEN 0
    ELSE last_of(h.ai_hist_x.vals) \div h.ai_hist_x.vals[Len(h.ai_hist_x.vals)].step + 1

\* the explored runs stay within MaxQueue waiting payloads and MaxAxisSamples
\* samples on one time axis
Room(queue_len, M) ==
    /\ Len(chunk_queue) < queue_len
    /\ axis_samples(hist) + queued_samples(chunk_queue) + M <= MaxAxisSamples

NextHist ==
    \/ ActDisconnect
    \/ \E etc_ok \in BOOLEAN : ActConnect(cfg_rate, etc_ok)
    \/ ActConnectScanFail
    \/ \E scan_ok \in BOOLEAN : ActApplyConfig(scan_ok)
    \/ \E rate \in HistRates, n_tc \in TcCounts, no \in BOOLEAN : ActLoadCfg(rate, n_tc, no)
    \/ \E rate \in HistRates, n_tc \in TcCounts, no \in BOOLEAN : ActEditCfg(rate, n_tc, no)
    \/ \E seconds \in HistSpans : OnSpanChanged(seconds)
    \/ \E M \in HistBlockLens : Room(MaxQueue, M) /\ OnChunkReady(M)
    \/ \E tc_ok \in [1..batches(chunk_queue) -> BOOLEAN] : Loop(tc_ok)

SpecHist == InitHistSpec /\ [][NextHist]_vars

\* ------------------------------------------------ a backlog of payloads
\* The worker runs ahead of the timer: more payloads wait than one pass pops.
MaxBacklog == 9          \* payloads waiting in the queue

BacklogBlockLens == {80, 90}

NextQueue ==
    \/ ActConnect(cfg_rate, FALSE)
    \/ \E M \in BacklogBlockLens : Room(MaxBacklog, M) /\ OnChunkReady(M)
    \/ \E ok \in BOOLEAN : Loop([k \in 1..batches(chunk_queue) |-> ok])

SpecQueue == InitHistSpec /\ [][NextQueue]_vars

\* ------------------------------------------------ the timer keeps firing
\* The worker is stopped by a disconnect with payloads still waiting; the
\* loop timer (main.py:426-428) fires for as long as the window lives, so a
\* pass that has something to pop is not put off for ever.
LoopPass == Loop([k \in 1..batches(chunk_queue) |-> FALSE])

DrainBlockLens == {80, 90}

\* the explored runs reconnect only while nothing has been acquired
NothingAcquired == chunk_queue = <<>> /\ axis_samples(hist) = 0

NextDrain ==
    \/ NothingAcquired /\ ActConnect(cfg_rate, FALSE)
    \/ ActDisconnect
    \/ \E M \in DrainBlockLens : Room(MaxBacklog, M) /\ OnChunkReady(M)
    \/ LoopPass

SpecDrain == InitHistSpec /\ [][NextDrain]_vars /\ WF_vars(LoopPass)

\* ------------------------------------------------ producer against consumer
\* Payloads of different lengths arrive between timer passes, connects,
\* disconnects and reconfigurations.
FifoBlockLens == {100, 150}

NextFifo ==
    \/ ActDisconnect
    \/ ActConnect(cfg_rate, FALSE)
    \/ ActApplyConfig(TRUE)
    \/ \E M \in FifoBlockLens : Room(MaxQueue, M) /\ OnChunkReady(M)
    \/ Loop([k \in 1..batches(chunk_queue) |-> FALSE])

SpecFifo == InitHistSpec /\ [][NextFifo]_vars

\* ------------------------------------ configuration changes under live loops
\* The PID loops run on the arriving blocks while configurations are loaded
\* and edited, PID files loaded and the loop states reset.
NextCfg ==
    \/ \E rate \in HistRates, n_tc \in TcCounts, no \in BOOLEAN : ActLoadCfg(rate, n_tc, no)
    \/ \E rate \in HistRates, n_tc \in TcCounts, no \in BOOLEAN : ActEditCfg(rate, n_tc, no)
    \/ \E f \in PidFiles : ActPidLoadJson(f)
    \/ ActPidReset
    \/ \E arr \in DrainBlocks : DrainBlock(arr, <<>>, 1)

SpecCfg == Init /\ [][NextCfg]_vars

\* ------------------------------------------------ invalid loop definitions
\* PID files with one loop whose output channel, or whose input channel, is
\* out of range, next to a valid loop
PidFileBadOut ==
    << [enabled |-> TRUE, kind |-> "digital", ai_ch |-> 0, out_ch |-> NumDO, target |-> 50,
        kp |-> 1, ki |-> 0, kd |-> 0, out_min |-> None, out_max |-> None,
        err_min |-> None, err_max |-> None, i_min |-> None, i_max |-> None,
        src |-> "ai"],
       [enabled |-> TRUE, kind |-> "digital", ai_ch |-> 0, out_ch |-> 0, target |-> 50,
        kp |-> 1, ki |-> 1, kd |-> 0, out_min |-> None, out_max |-> None,
        err_min |-> None, err_max |-> None, i_min |-> -2, i_max |-> 2,
        src |-> "ai"] >>

PidFileBadIn ==
    << [enabled |-> TRUE, kind |-> "digital", ai_ch |-> 5, out_ch |-> 1, target |-> 50,
        kp |-> 1, ki |-> 1, kd |-> 0, out_min |-> None, out_max |-> None,
        err_min |-> None, err_max |-> None, i_min |-> None, i_max |-> None,
        src |-> "ai"],
       [enabled |-> TRUE, kind |-> "analog", ai_ch |-> 0, out_ch |-> 1, target |-> 50,
        kp |-> 1, ki |-> 1, kd |-> 0, out_min |-> None, out_max |-> None,
        err_min |-> None, err_max |-> None, i_min |-> -2, i_max |-> 2,
        src |-> "ai"] >>

PidFileBadTc ==
    << [enabled |-> TRUE, kind |-> "analog", ai_ch |-> 0, out_ch |-> 0, target |-> 50,
        kp |-> 1, ki |-> 1, kd |-> 0, out_min |-> None, out_max |-> None,
        err_min |-> None, err_max |-> None, i_min |-> -2, i_max |-> 2,
        src |-> "tc"],
       [enabled |-> TRUE, kind |-> "digital", ai_ch |-> 1, out_ch |-> 2, target |-> 50,
        kp |-> 1, ki |-> 1, kd |-> 0, out_min |-> None, out_max |-> None,
        err_min |-> None, err_max |-> None, i_min |-> -2, i_max |-> 2,
        src |-> "ai"] >>

BadPidFiles == {PidFileBadOut, PidFileBadIn, PidFileBadTc}

\* thermocouple blocks read next to a block of m samples: none, or one channel
TcBlocks(m) == {<<>>, <<[k \in 1..m |-> 5]>>}

NextInvalid ==
    \/ \E f \in BadPidFiles : ActPidLoadJson(f)
    \/ \E r \in 1..Len(pid_table) : PidOnEnableRow(r)
    \/ \E r \in 1..Len(pid_table), val \in TableOutChoices : PidOnOutChanged(r, val)
    \/ ActPidReset
    \/ \E arr \in DrainBlocks : \E tc \in TcBlocks(Len(arr[1])) : DrainBlock(arr, tc, 1)

SpecInvalid == Init /\ [][NextInvalid]_vars

\* ------------------------------------------------------------- rendering
\* arr[-N:] in _render, taken when the series is longer than a non-empty axis
render_cut(len, N) == IF len > N /\ N > 0 THEN N ELSE len

\* len(yy[-n:]): the last n values, and the whole array when n = 0
last_n(len, n) == IF n = 0 THEN len ELSE Min2(len, n)

\* set_data: a series longer than the axis is cut to yy[-n:], a shorter one
\* gets n - len NaN in front
align(len, n) ==
    IF len = n THEN [len |-> len, pad |-> 0]
    ELSE IF len > n THEN [len |-> last_n(len, n), pad |-> 0]
    ELSE [len |-> n, pad |-> n - len]

cut_all(seqs, N) == [i \in 1..Len(seqs) |-> align(render_cut(seqs[i].n, N), N)]

\* the thermocouple series go to set_data as they are
raw_all(seqs, N) == [i \in 1..Len(seqs) |-> align(seqs[i].n, N)]

\* _render with the combined window visible and every series included, then
\* CombinedChartWindow.set_data not paused
Render ==
    /\ op' = "render"
    /\ shown' = [n |-> hist.ai_hist_x.n,
                 first |-> IF hist.ai_hist_x.vals = <<>> THEN 0 ELSE hist.ai_hist_x.vals[1].t0,
                 last |-> IF hist.ai_hist_x.vals = <<>> THEN 0 ELSE last_of(hist.ai_hist_x.vals),
                 span |-> time_window_s,
                 ai |-> cut_all(hist.ai_hist_y, hist.ai_hist_x.n),
                 ao |-> cut_all(hist.ao_hist_y, hist.ai_hist_x.n),
                 tc |-> raw_all(hist.tc_hist_y, hist.ai_hist_x.n),
                 do |-> cut_all(hist.do_hist_y, hist.ai_hist_x.n)]
    /\ UNCHANGED <<scanVars, pidVars, uiVars, histVars, step_call, block_call, block_shape,
                   lpf, worker, outs, script>>

\* the device connects and disconnects, payloads arrive and are drained, the
\* span changes, and the render timer fires in between
NextRender ==
    \/ ActDisconnect
    \/ \E etc_ok \in BOOLEAN : ActConnect(cfg_rate, etc_ok)
    \/ \E seconds \in HistSpans : OnSpanChanged(seconds)
    \/ \E M \in HistBlockLens : Room(MaxQueue, M) /\ OnChunkReady(M)
    \/ \E tc_ok \in [1..batches(chunk_queue) -> BOOLEAN] : Loop(tc_ok)
    \/ Render

SpecRender == InitHistSpec /\ [][NextRender]_vars

\* ------------------------------------------------- outputs and their histories
\* position of index idx in a Python list of n entries kept as a sequence
Pos(idx, n) == IF idx < 0 THEN idx + n + 1 ELSE idx + 1

\* the loop over one command map (main.py:1403-1412) from key k on: the state
\* list takes the value of every controlled channel, up to the first
\* update that raises
RECURSIVE apply_from(_, _, _, _, _)
apply_from(state, kind, updates, keys, k) ==
    IF k > Len(keys) \/ k >= first_raise(kind, keys) THEN state
    ELSE apply_from(
             IF (IF kind = "do" THEN is_do_controlled(keys[k]) ELSE is_ao_controlled(keys[k]))
             THEN [state EXCEPT ![Pos(keys[k], Len(state))] = updates[keys[k]].v]
             ELSE state,
             kind, updates, keys, k + 1)

\* daq.set_do_bit / daq.set_ao_volts calls made for the writes ws by src
hw_writes(src, ws, connected) ==
    IF connected THEN {[src |-> src, kind |-> w.kind, ch |-> w.ch, v |-> w.v] : w \in ws}
    ELSE {}

hist_state_before(before, after) == before

\* the state a history is extended with: the one the apply phase left
hist_state(before, after) == after

\* [1.0 if do_state[di] else 0.0] * M and [float(ao_value[ai])] * M
repeat(state_before, state_after, M) ==
    [c \in 1..Len(state_after) |-> [v |-> hist_state(state_before[c], state_after[c]), n |-> M]]

\* _drain_chunks on one payload (main.py:1371-1459): the PID part, then the
\* output histories are extended with the output state
DrainPayload(arr, tc_block_2d, sp) ==
    /\ DrainPid(arr, tc_block_2d, sp)
    /\ op' = "drain_payload"
    /\ \E dk \in {key_order(dloops, Stepping(dloops, arr, tc_block_2d), <<>>, 1)},
          ak \in {key_order(aloops, Stepping(aloops, arr, tc_block_2d), <<>>, 1)} :
       \E ds \in {apply_from(outs.do_state, "do", cmds'.do, dk, 1)},
          as \in {IF update_raises("do", dk) THEN outs.ao_value
                  ELSE apply_from(outs.ao_value, "ao", cmds'.ao, ak, 1)} :
          outs' = [outs EXCEPT !.do_state = ds,
                               !.ao_value = as,
                               !.hw = hw_writes("pid", written', daq_connected),
                               !.M = Len(arr[1]),
                               !.do_tail = repeat(outs.do_state, ds, Len(arr[1])),
                               !.ao_tail = repeat(outs.ao_value, as, Len(arr[1]))]
    /\ UNCHANGED <<cfg_no, defs, loops, dlg_open, dlg_rows, pid_table, scanVars, histVars,
                   step_call, block_call, lpf, worker, shown, script>>

outFrame == <<scanVars, pidVars, uiVars, histVars, step_call, block_call, block_shape, lpf, worker, shown, script>>

\* _set_do(idx, state): do_state remembers the state, the bit is written to a
\* connected device
_set_do(o, idx, state, src, connected) ==
    [o EXCEPT !.do_state[Pos(idx, NumDO)] = Bit(state),
              !.hw = hw_writes(src, {[kind |-> "do", ch |-> idx, v |-> Bit(state)]}, connected)]

\* _on_do_pressed on a momentary button; no is the state of its
\* normally-open box
DoPressed(idx, no) ==
    /\ idx \notin outs.held
    /\ op' = "do_pressed"
    /\ outs' = [(IF daq_connected THEN _set_do(outs, idx, no, "button", TRUE)
                 ELSE [outs EXCEPT !.hw = {}])
                EXCEPT !.held = @ \cup {idx}]
    /\ UNCHANGED outFrame

\* _on_do_released on a momentary button
DoReleased(idx, no) ==
    /\ idx \in outs.held
    /\ op' = "do_released"
    /\ outs' = [(IF daq_connected THEN _set_do(outs, idx, ~no, "button", TRUE)
                 ELSE [outs EXCEPT !.hw = {}])
                EXCEPT !.held = @ \ {idx}]
    /\ UNCHANGED outFrame

\* max(max(-10.0, a.minV), min(min(10.0, a.maxV), v)) with the default limits
slider_volts(raw_val) == Max2(-10, Min2(10, raw_val \div 100))

\* _on_ao_slider: the slider position, in hundredths of a volt, becomes ao_value
\* and is written to a connected device
OnAoSlider(idx, raw_val) ==
    /\ op' = "ao_slider"
    /\ outs' = [outs EXCEPT !.ao_value[Pos(idx, NumAO)] = slider_volts(raw_val),
                            !.hw = hw_writes("slider",
                                       {[kind |-> "ao", ch |-> idx, v |-> slider_volts(raw_val)]},
                                       daq_connected)]
    /\ UNCHANGED outFrame

ButtonChans == {0}
SliderChans == {1}
SliderRaws == {1500}

\* loops are loaded and enabled, the device connects, a button and a slider
\* are used while payloads are drained
NextOut ==
    \/ ActPidLoadJson(PidFile2)
    \/ \E r \in 1..Len(pid_table) : PidOnEnableRow(r)
    \/ ActConnect(cfg_rate, FALSE)
    \/ \E idx \in ButtonChans, no \in BOOLEAN : DoPressed(idx, no)
    \/ \E idx \in ButtonChans, no \in BOOLEAN : DoReleased(idx, no)
    \/ \E idx \in SliderChans, raw_val \in SliderRaws : OnAoSlider(idx, raw_val)
    \/ \E arr \in DrainBlocks : DrainPayload(arr, <<>>, 1)

SpecOut == Init /\ [][NextOut]_vars

\* ------------------------------------------------------------ script_runner.py
\* The runner holds a list of events, each with a time in seconds from the
\* start and the relay states to set; a 10 ms timer calls _on_tick while it
\* is started.
MaxClock == 5            \* the clock readings explored

scriptFrame == <<scanVars, pidVars, uiVars, histVars, step_call, block_call, block_shape, lpf,
                 worker, shown>>

\* the event lists in the editor buffer (script_events)
ScriptA ==
    << [time |-> 1, relays |-> <<TRUE>>],
       [time |-> 1, relays |-> <<FALSE, TRUE>>],
       [time |-> 3, relays |-> <<TRUE, FALSE>>] >>
ScriptB == << [time |-> 0, relays |-> <<TRUE>>] >>
Scripts == {<<>>, ScriptA, ScriptB}

\* ScriptRunner.reset; applied restarts with it
reset(r) ==
    [r EXCEPT !.t0 = None, !.pause_t = 0, !.paused = TRUE, !.cursor = 0, !.timer = FALSE,
              !.applied = <<>>, !.finished = FALSE]

\* ScriptRunner.set_events
set_events(r, events) == reset([r EXCEPT !.events = events])

\* ScriptRunner.run
run(r) ==
    IF r.events = <<>> THEN r
    ELSE [r EXCEPT !.t0 = IF r.t0 = None THEN r.now ELSE r.now - r.pause_t,
                   !.pause_t = IF r.t0 = None THEN @ ELSE 0,
                   !.paused = FALSE, !.timer = TRUE, !.finished = FALSE]

\* ScriptRunner.stop
stop(r) ==
    IF r.paused THEN r
    ELSE [r EXCEPT !.paused = TRUE, !.timer = FALSE, !.pause_t = r.now - r.t0]

\* for i, st in enumerate(rel[:8]): self._set_do(i, bool(st)), from relay i on
RECURSIVE set_relays(_, _, _, _)
set_relays(o, rel, i, connected) ==
    IF i > Min2(Len(rel), NumDO) THEN o
    ELSE set_relays(_set_do(o, i - 1, rel[i], "script", connected), rel, i + 1, connected)

\* the while test of _on_tick
event_due(r, t) == r.cursor < Len(r.events) /\ t >= r.events[r.cursor + 1].time

apply_event_twice(s, connected) ==
    [r |-> [s.r EXCEPT !.applied = Append(Append(@, s.r.cursor + 1), s.r.cursor + 1),
                       !.cursor = @ + 1],
     o |-> set_relays(s.o, s.r.events[s.r.cursor + 1].relays, 1, connected)]

\* the body of the while loop of _on_tick on the runner s.r and the outputs
\* s.o: the relays of the event at the cursor are set, the cursor moves on
apply_event(s, connected) ==
    [r |-> [s.r EXCEPT !.applied = Append(@, s.r.cursor + 1), !.cursor = @ + 1],
     o |-> set_relays(s.o, s.r.events[s.r.cursor + 1].relays, 1, connected)]

\* the while loop of _on_tick at script time t
RECURSIVE run_due(_, _, _)
run_due(s, t, connected) ==
    IF event_due(s.r, t) THEN run_due(apply_event(s, connected), t, connected) ELSE s

\* the end of _on_tick: past the last event the timer stops and finished is emitted
tick_end(r) ==
    [r EXCEPT !.timer = (r.cursor < Len(r.events)), !.finished = (r.cursor >= Len(r.events))]

\* ScriptRunner._on_tick, called by the started timer
ScriptOnTick ==
    /\ script.timer
    /\ op' = "script_tick"
    /\ IF script.paused \/ script.t0 = None
       THEN UNCHANGED <<script, outs>>
       ELSE \E s \in {run_due([r |-> script, o |-> outs], script.now - script.t0,
                              daq_connected)} :
               /\ script' = tick_end(s.r)
               /\ outs' = s.o
    /\ UNCHANGED scriptFrame

\* time.perf_counter() moves on
ClockAdvance ==
    /\ script.now < MaxClock
    /\ op' = "clock"
    /\ script' = [script EXCEPT !.now = @ + 1]
    /\ UNCHANGED <<outs, scriptFrame>>

\* MainWindow._act_run_script with events in the editor buffer
ActRunScript(events) ==
    /\ op' = "act_run_script"
    /\ script' = run(set_events(script, events))
    /\ UNCHANGED <<outs, scriptFrame>>

\* MainWindow._act_stop_script
ActStopScript ==
    /\ op' = "act_stop_script"
    /\ script' = stop(script)
    /\ UNCHANGED <<outs, scriptFrame>>

\* MainWindow._act_reset_script
ActResetScript ==
    /\ op' = "act_reset_script"
    /\ script' = reset(script)
    /\ UNCHANGED <<outs, scriptFrame>>

\* ScriptRunner.run called on the runner as it is, without set_events: the
\* resume after stop()
ScriptRun ==
    /\ op' = "script_run"
    /\ script' = run(script)
    /\ UNCHANGED <<outs, scriptFrame>>

NextScript ==
    \/ ActConnect(cfg_rate, FALSE)
    \/ \E events \in Scripts : ActRunScript(events)
    \/ ActStopScript
    \/ ActResetScript
    \/ ScriptRun
    \/ ScriptOnTick
    \/ ClockAdvance

SpecScript == InitHistSpec /\ [][NextScript]_vars

\* ------------------------------------------------ a failed thermocouple read
\* An analog loop reads thermocouple 0 and drives AO0 within [2, 8]; the
\* thermocouple block holds a temperature or, after a failed t_in, NaN in
\* every row (etc_device.py:236-238, 250, 254, 275).
NanFile ==
    << [enabled |-> TRUE, kind |-> "analog", ai_ch |-> 0, out_ch |-> 0, target |-> 5,
        kp |-> 1, ki |-> 1, kd |-> 0, out_min |-> 2, out_max |-> 8,
        err_min |-> None, err_max |-> None, i_min |-> -2, i_max |-> 2,
        src |-> "tc"] >>

TcReadings == {3, 7, NaN}

\* read_block: the last reading of the one thermocouple, held over the rows
HeldTcBlocks(arr) == {<<[k \in 1..Len(arr[1]) |-> v]>> : v \in TcReadings}

\* min(a, b) and max(a, b) of Python on two floats: the first argument
\* unless the second compares smaller (larger)
py_min(a, b) == IF FLt(b, a) THEN b ELSE a
py_max(a, b) == IF FGt(b, a) THEN b ELSE a

\* DaqDriver.set_ao_volts: the voltage handed to ul.v_out
set_ao_volts(volts) == py_max(-10, py_min(10, volts))

NextNan ==
    \/ ActPidLoadJson(NanFile)
    \/ ActConnect(cfg_rate, TRUE)
    \/ ActPidReset
    \/ \E r \in 1..Len(pid_table) : PidOnEnableRow(r)
    \/ \E arr \in DrainBlocks : \E tc \in HeldTcBlocks(arr) : DrainPayload(arr, tc, 1)

SpecNan == Init /\ [][NextNan]_vars

\* ------------------------------------------------------------- acq_worker.py
\* The thread is at "loop" (the while test of run), at "sleep" (one of the
\* msleep calls that end a pass) or does not run ("none").
MaxRetries == 2          \* reads followed after a read of the same worker raised

workerFrame == <<pidVars, uiVars, step_call, block_call, block_shape, lpf, outs, shown, script, cfg_rate, cfg_tcs, daq_connected, etc_connected,
                 sample_period, time_window_s, hist>>

\* [a.slope for a in cfg.analogs], [a.offset ...]: channel ch at position ch + 1
CalSlopes == <<2, 3>>
CalOffsets == <<1, -1>>
CalCutoffs == {<<0, 10>>, <<10, -5>>}

\* AcqWorker(daq, slopes, offsets, cutoffs, actual_rate).start() once the scan
\* runs (main.py:1174-1179): one new filter per channel
WorkerStart(cutoffs) ==
    /\ worker.pc = "none"
    /\ scan_running
    /\ op' = "worker_start"
    /\ worker' = [pc |-> "loop", stop |-> FALSE, fault |-> FALSE, reads_after_fault |-> 0,
                  slopes |-> CalSlopes, offsets |-> CalOffsets, cutoffs |-> cutoffs,
                  fs |-> scan_rate,
                  filters |-> [p \in 1..Len(cutoffs) |-> OnePoleLPF(cutoffs[p], scan_rate)],
                  emitted |-> NoEmit, waited |-> FALSE, after_stop |-> 0]
    /\ acq_running' = TRUE
    /\ UNCHANGED <<scanVars, chunk_queue, workerFrame>>

\* AcqWorker.stop
WorkerStop ==
    /\ worker.pc # "none"
    /\ ~worker.stop
    /\ op' = "worker_stop"
    /\ worker' = [worker EXCEPT !.stop = TRUE]
    /\ UNCHANGED <<scanVars, acq_running, chunk_queue, workerFrame>>

\* the while test finds _stop set: run returns
WorkerExit ==
    /\ worker.pc = "loop"
    /\ worker.stop
    /\ op' = "worker_exit"
    /\ worker' = [NoWorker EXCEPT !.waited = worker.waited]
    /\ acq_running' = FALSE
    /\ UNCHANGED <<scanVars, chunk_queue, workerFrame>>

\* M = min(len(c) for c in ch_lists)
MinLen(ch_lists) ==
    CHOOSE m \in {Len(ch_lists[c]) : c \in 1..Len(ch_lists)} :
        \A c \in 1..Len(ch_lists) : m <= Len(ch_lists[c])

\* the packet holds nothing to emit: None, no lists, or only empty lists
NothingNew(pkt) ==
    pkt.none \/ pkt.ch_lists = <<>> \/ \A c \in 1..Len(pkt.ch_lists) : Len(pkt.ch_lists[c]) = 0

\* row[-M:]
last_M(row, M) == SubSeq(row, Len(row) - M + 1, Len(row))

\* sample * slope + offset
calibrate_offset_first(x, slope, offset) == (x + offset) * slope

calibrate(x, slope, offset) == x * slope + offset

\* data[i, :] * slopes[phys_ch] + offsets[phys_ch]
cal_row(w, phys_ch, row) ==
    [k \in 1..Len(row) |-> calibrate(row[k], w.slopes[phys_ch + 1], w.offsets[phys_ch + 1])]

\* the filter of phys_ch after set_fs(self._fs) and process_chunk of the calibrated row
filtered(w, phys_ch, row) ==
    process_chunk(set_fs(w.filters[phys_ch + 1], w.fs), cal_row(w, phys_ch, row))

\* row i of the emitted data: calibrated, and filtered when the cutoff is positive
row_out(w, phys_ch, row) ==
    IF w.cutoffs[phys_ch + 1] > 0 THEN filtered(w, phys_ch, row).y
    ELSE cal_row(w, phys_ch, row)

\* the emitted array of shape (num_ch, M)
emit_data(w, pkt) ==
    [i \in 1..pkt.num_ch |->
        row_out(w, pkt.low + i - 1, last_M(pkt.ch_lists[i], MinLen(pkt.ch_lists)))]

\* self._filters once the block is emitted: the filters of the block's
\* channels with a positive cutoff have moved on
filters_after(w, pkt) ==
    [p \in 1..Len(w.filters) |->
        IF p - 1 \in pkt.low..(pkt.low + pkt.num_ch - 1) /\ w.cutoffs[p] > 0
        THEN filtered(w, p - 1, last_M(pkt.ch_lists[p - pkt.low], MinLen(pkt.ch_lists))).f
        ELSE w.filters[p]]

\* the rest of a pass of run once read_ai_new has returned ret': nothing new
\* is slept over, a packet with samples is calibrated, filtered and emitted,
\* and _on_chunk_ready queues it
WorkerHandles ==
    /\ chunk_queue' = IF NothingNew(ret') THEN chunk_queue
                      ELSE _on_chunk_ready(chunk_queue,
                                           [M |-> MinLen(ret'.ch_lists), old |-> FALSE])
    /\ worker' = [worker EXCEPT !.pc = "sleep",
                                !.reads_after_fault = IF worker.fault THEN @ + 1 ELSE @,
                                !.filters = IF NothingNew(ret') THEN @
                                            ELSE filters_after(worker, ret'),
                                !.emitted = IF NothingNew(ret') THEN NoEmit
                                            ELSE [low |-> ret'.low, raw |-> ret'.ch_lists,
                                                  data |-> emit_data(worker, ret'),
                                                  before |-> worker.filters],
                                !.after_stop = IF worker.stop /\ ~NothingNew(ret') THEN @ + 1
                                               ELSE @]
    /\ UNCHANGED <<acq_running, workerFrame>>

\* one pass of run in which read_ai_new returns
WorkerRead ==
    /\ worker.pc = "loop"
    /\ ~worker.stop
    /\ op' = "worker_read"
    /\ read_ai_new_returns
    /\ WorkerHandles

\* one pass of run in which read_ai_new raises: the except clause makes the
\* packet None and the pass ends in msleep(3)
WorkerReadRaises ==
    /\ worker.pc = "loop"
    /\ ~worker.stop
    /\ op' = "worker_read_raises"
    /\ read_ai_new_raises
    /\ worker' = [worker EXCEPT !.pc = "sleep", !.fault = TRUE,
                                !.reads_after_fault = IF worker.fault THEN @ + 1 ELSE @]
    /\ UNCHANGED <<acq_running, chunk_queue, workerFrame>>

\* msleep returns
WorkerWake ==
    /\ worker.pc = "sleep"
    /\ op' = "worker_wake"
    /\ worker' = [worker EXCEPT !.pc = "loop"]
    /\ UNCHANGED <<scanVars, acq_running, chunk_queue, workerFrame>>

\* --- the pass of run with the call of read_ai_new and its return apart
run_continues_always(w) == TRUE

\* while not self._stop
run_continues(w) == ~w.stop

\* the while test passes and read_ai_new is entered
WorkerCall ==
    /\ worker.pc = "loop"
    /\ run_continues(worker)
    /\ op' = "worker_call"
    /\ worker' = [worker EXCEPT !.pc = "reading"]
    /\ UNCHANGED <<scanVars, acq_running, chunk_queue, workerFrame>>

\* read_ai_new returns on the scan it finds running, the pass goes on
WorkerReturn ==
    /\ worker.pc = "reading"
    /\ scan_running
    /\ op' = "worker_return"
    /\ read_ai_new_returns
    /\ WorkerHandles

\* what read_ai_new can hand back once stop_ai_scan has freed the ring under
\* it: None (the call on the dropped handle raised and run caught it), or the
\* frame it copied from the freed memory
Garbage == {-7}
FreedOutcomes ==
    {RetNone} \cup {RetPkt(scan_low, scan_num_ch, [c \in 1..scan_num_ch |-> <<g>>]) : g \in Garbage}

\* read_ai_new returns after the scan was stopped under it
WorkerReturnFreed ==
    /\ worker.pc = "reading"
    /\ ~scan_running
    /\ op' = "worker_return_freed"
    /\ ret' \in FreedOutcomes
    /\ UNCHANGED <<scan_running, scan_low, scan_high, scan_num_ch, scan_rate, scan_count,
                   scan_last_index, scan_mem, hw_count, delivered, overrun>>
    /\ WorkerHandles

\* _act_connect (disconnect path) and _act_apply_config on a connected
\* device: acq_thread.stop(); acq_thread.wait(1000)
MainStopAndWait ==
    /\ worker.pc # "none"
    /\ ~worker.stop
    /\ ~worker.waited
    /\ op' = "stop_and_wait"
    /\ worker' = [worker EXCEPT !.stop = TRUE, !.waited = TRUE]
    /\ UNCHANGED <<scanVars, acq_running, chunk_queue, workerFrame>>

\* wait returns, because the thread has finished or because the 1000 ms have
\* passed; acq_thread = None, then daq.disconnect() resp. daq.stop_ai_scan()
\* frees the ring
MainWaitReturns ==
    /\ worker.waited
    /\ op' = "wait_returns"
    /\ worker' = [worker EXCEPT !.waited = FALSE]
    /\ scan_mem' = <<>>
    /\ scan_running' = FALSE
    /\ acq_running' = FALSE
    /\ UNCHANGED <<scan_low, scan_high, scan_num_ch, scan_rate, scan_count, scan_last_index,
                   hw_count, ret, delivered, overrun, chunk_queue, workerFrame>>

\* one scan is started and read by workers; the main window's timer is left out
WorkerHighs == {0, 1}
WorkerBlock == 2
WorkerRate == 100

NextWorker ==
    \/ \E high \in WorkerHighs :
          ~scan_running /\ StartAiScan(LowChan, high, WorkerRate, WorkerBlock, WorkerRate)
    \/ HwWrite
    \/ \E cutoffs \in CalCutoffs : WorkerStart(cutoffs)
    \/ WorkerStop
    \/ WorkerExit
    \/ worker.reads_after_fault < MaxRetries /\ Len(chunk_queue) < MaxQueue /\ WorkerRead
    \/ worker.reads_after_fault < MaxRetries /\ WorkerReadRaises
    \/ WorkerWake

SpecWorker == InitHistSpec /\ [][NextWorker]_vars

\* the worker thread and the main thread's timer side by side, on a ring of
\* ThreadsBlock frames so that the blocks handed over differ in length
ThreadsBlock == 3

NextThreads ==
    \/ ~scan_running /\ StartAiScan(LowChan, 1, WorkerRate, ThreadsBlock, WorkerRate)
    \/ HwWrite
    \/ WorkerStart(<<0, 10>>)
    \/ WorkerStop
    \/ WorkerExit
    \/ Len(chunk_queue) < MaxQueue /\ WorkerRead
    \/ WorkerWake
    \/ \E tc_ok \in [1..batches(chunk_queue) -> BOOLEAN] : Loop(tc_ok)

SpecThreads == InitHistSpec /\ [][NextThreads]_vars

\* stop() is called on a worker that reads one scan; every call of the
\* driver returns, every msleep ends and the while test is reached
NextStop ==
    \/ ~scan_running /\ StartAiScan(LowChan, 1, WorkerRate, ThreadsBlock, WorkerRate)
    \/ HwWrite
    \/ WorkerStart(<<0, 10>>)
    \/ WorkerStop
    \/ WorkerCall
    \/ WorkerReturn
    \/ WorkerWake
    \/ WorkerExit

SpecStop ==
    /\ InitHistSpec
    /\ [][NextStop]_vars
    /\ WF_vars(WorkerReturn) /\ WF_vars(WorkerWake) /\ WF_vars(WorkerExit)

\* the main thread stops, joins and restarts while the worker reads; the
\* timer is left out, so the runs end with MaxQueue payloads waiting
NextJoin ==
    \/ ~scan_running /\ ~worker.waited
          /\ StartAiScan(LowChan, 1, WorkerRate, ThreadsBlock, WorkerRate)
    \/ HwWrite
    \/ ~worker.waited /\ WorkerStart(<<0, 10>>)
    \/ WorkerCall
    \/ Len(chunk_queue) < MaxQueue /\ WorkerReturn
    \/ Len(chunk_queue) < MaxQueue /\ WorkerReturnFreed
    \/ WorkerWake
    \/ WorkerExit
    \/ MainStopAndWait
    \/ MainWaitReturns

SpecJoin == InitHistSpec /\ [][NextJoin]_vars

\* ==================================================== render claims
SeriesShown == {shown.ai[i] : i \in 1..Len(shown.ai)} \cup {shown.ao[i] : i \in 1..Len(shown.ao)}
                   \cup {shown.tc[i] : i \in 1..Len(shown.tc)}
                   \cup {shown.do[i] : i \in 1..Len(shown.do)}

\* C30: what a render pass hands to the chart is, for every series, as long
\* as the time axis handed over (a shorter series padded on the left), and
\* the time axis holds only values >= t_end - window_seconds.
C30_TailIsAlignedWindowSuffix ==
    op = "render" =>
        /\ \A s \in SeriesShown : s.len = shown.n
        /\ shown.n > 0 => shown.first >= shown.last - shown.span * MicroPerSec

\* ==================================================== output claims
\* the entry of a state list that the write w went to
StateAt(state, w) == state[Pos(w.ch, Len(state))]

\* C27: for a drained block of M samples every digital-output and every
\* analog-output history is extended with M copies of the channel's output
\* state as the block's PID commands, applied before, left it.
C27_HistoriesGetStateAfterCommands ==
    op = "drain_payload" =>
        /\ Len(outs.do_tail) = NumDO
        /\ Len(outs.ao_tail) = NumAO
        /\ \A c \in 1..NumDO : outs.do_tail[c] = [v |-> outs.do_state[c], n |-> outs.M]
        /\ \A c \in 1..NumAO : outs.ao_tail[c] = [v |-> outs.ao_value[c], n |-> outs.M]
        /\ \A w \in written :
              StateAt(IF w.kind = "do" THEN outs.do_state ELSE outs.ao_value, w) = w.v

\* a block of two samples whose commands switch DO0 off and drive AO1 to the
\* lower limit; AO0 keeps its start value
C27_Witness ==
    /\ op = "drain_payload"
    /\ outs.M = 2
    /\ \E w \in written : w.kind = "do" /\ w.ch = 0 /\ w.v = 0
    /\ \E w \in written : w.kind = "ao" /\ w.ch = 1 /\ w.v = -10
    /\ outs.do_tail[1] = [v |-> 0, n |-> 2]
    /\ outs.ao_tail[2] = [v |-> -10, n |-> 2]
    /\ outs.ao_tail[1] = [v |-> 0, n |-> 2]

\* C29: a PID command is written to the hardware only for a channel that is
\* not under manual control at that time, here a digital output whose
\* momentary button is held down.
C29_NoPidWriteUnderManualControl ==
    op = "drain_payload" =>
        \A w \in outs.hw : ~(w.src = "pid" /\ w.kind = "do" /\ w.ch \in outs.held)

\* ==================================================== thread claims
\* the steps taken by the worker thread; starting and stopping it are calls
\* of the main thread
WorkerSteps == {"worker_read", "worker_read_raises", "worker_wake", "worker_exit"}

RawOf(e, i, k) == e.raw[i][Len(e.raw[i]) - Len(e.data[i]) + k]

\* the calibrated samples behind row i of the emitted block
CalOf(e, i) ==
    [k \in 1..Len(e.data[i]) |->
        RawOf(e, i, k) * worker.slopes[e.low + i] + worker.offsets[e.low + i]]

C24_FirstSamplePassesThenOnePole ==
    /\ op \in {"lpf_new", "lpf_reset"} => lpf.f.y = None
    /\ (op = "process_chunk" /\ lpf.before.cutoff_hz > 0 /\ Len(lpf.x) > 0) =>
          /\ Len(lpf.y) = Len(lpf.x)
          /\ lpf.y[1] = IF lpf.before.y = None THEN lpf.x[1]
                        ELSE lpf.before.y
                               + (lpf.before.alpha * (lpf.x[1] - lpf.before.y)) \div AlphaDen
          /\ \A n \in 2..Len(lpf.x) :
                lpf.y[n] = lpf.y[n - 1]
                             + (lpf.before.alpha * (lpf.x[n] - lpf.y[n - 1])) \div AlphaDen
          /\ lpf.f.y = lpf.y[Len(lpf.y)]

\* a fresh filter with cutoff 10 at 100 samples/s takes 20 and then 0
C24_Witness ==
    /\ op = "process_chunk"
    /\ lpf.before.y = None /\ lpf.before.alpha = 467
    /\ lpf.x = <<20, 0>>
    /\ lpf.y = <<20, 10>>
    /\ lpf.f.y = 10

\* the outputs and the filter when x goes through process_chunk in two calls,
\* its first k samples and then the rest
SplitAt(f, x, k) ==
    [f |-> process_chunk(process_chunk(f, SubSeq(x, 1, k)).f, SubSeq(x, k + 1, Len(x))).f,
     y |-> process_chunk(f, SubSeq(x, 1, k)).y
           \o process_chunk(process_chunk(f, SubSeq(x, 1, k)).f, SubSeq(x, k + 1, Len(x))).y]

\* C25: a chunk filtered in one process_chunk call gives the outputs and the
\* final filter state that it gives split at any point into two calls.
C25_SplitChunkSameResult ==
    op = "process_chunk" =>
        \A k \in 0..Len(lpf.x) :
            /\ SplitAt(lpf.before, lpf.x, k).y = lpf.y
            /\ SplitAt(lpf.before, lpf.x, k).f = lpf.f

\* a running filter takes a chunk of two samples that moves its output twice
C25_Witness ==
    /\ op = "process_chunk"
    /\ lpf.before.cutoff_hz > 0
    /\ lpf.before.y # None
    /\ Len(lpf.x) = 2
    /\ lpf.y[1] # lpf.before.y
    /\ lpf.y[2] # lpf.y[1]
    /\ lpf.y[2] # lpf.x[2]

\* C26: set_fs and set_cutoff leave the stored output as it was and make alpha
\* the one of the cutoff and rate now set; a process_chunk call preceded by
\* set_fs with the rate the filter already has gives what the call alone gives.
C26_RetuningKeepsOutput ==
    /\ op \in {"set_fs", "set_cutoff"} =>
          /\ lpf.f.y = lpf.before.y
          /\ lpf.f.alpha = alpha_of(lpf.f.cutoff_hz, lpf.f.fs_hz)
    /\ op = "set_fs" => lpf.f.cutoff_hz = lpf.before.cutoff_hz
    /\ op = "set_cutoff" => lpf.f.fs_hz = lpf.before.fs_hz
    /\ op = "process_chunk" =>
          /\ process_chunk(set_fs(lpf.before, lpf.before.fs_hz), lpf.x).y = lpf.y
          /\ process_chunk(set_fs(lpf.before, lpf.before.fs_hz), lpf.x).f = lpf.f

\* the rate of a running filter is changed: alpha follows, the output stays
C26_Witness ==
    /\ op = "set_fs"
    /\ lpf.before.y # None
    /\ lpf.before.cutoff_hz > 0
    /\ lpf.f.fs_hz # lpf.before.fs_hz
    /\ lpf.f.alpha # lpf.before.alpha
    /\ lpf.f.y = lpf.before.y

\* ==================================================== block claims
\* the core after single steps on the first k samples of block
RECURSIVE CoreAfter(_, _, _, _)
CoreAfter(c, block, dt, k) ==
    IF k = 0 THEN c ELSE step(CoreAfter(c, block, dt, k - 1), block[k], dt).core

\* the single step on the last sample of block, after single steps on the others
LastStep(c, block, dt) ==
    step(CoreAfter(c, block, dt, Len(block) - 1), block[Len(block)], dt)

\* the command the wrapper x derives from the control output u
CommandFor(x, u) ==
    IF x.kind = "digital" THEN Bit(IF x.no THEN FGe(u, 0) ELSE ~FGe(u, 0))
    ELSE IF FLt(u, x.lo) THEN x.lo ELSE IF FGt(u, x.hi) THEN x.hi ELSE u

\* C21: after a block of M samples the loop's integral and previous error are
\* those M single steps in sample order leave, and the block's one command is
\* the output of the step on the last sample.
C21_BlockIsMSingleSteps ==
    op = "block" =>
        /\ AllInsts[1].core.i =
              LastStep(block_call.insts[1].core, block_call.block, block_call.dt).core.i
        /\ AllInsts[1].core.prev_err =
              LastStep(block_call.insts[1].core, block_call.block, block_call.dt).core.prev_err
        /\ \E m \in {IF AllInsts[1].kind = "digital" THEN cmds.do ELSE cmds.ao} :
              /\ DOMAIN m = {defs[AllInsts[1].defn].out_ch}
              /\ m[defs[AllInsts[1].defn].out_ch].v =
                    CommandFor(block_call.insts[1],
                               LastStep(block_call.insts[1].core, block_call.block,
                                        block_call.dt).u)
        /\ (IF AllInsts[1].kind = "digital" THEN cmds.ao ELSE cmds.do) = <<>>

\* a block of two different samples on a fresh loop with integral and
\* derivative action: the output of the last step depends on the first
C21_Witness ==
    /\ op = "block"
    /\ block_call.block = <<5, 40>>
    /\ block_call.dt = 1
    /\ AllInsts[1].kind = "analog"
    /\ AllInsts[1].core.ki = 1 /\ AllInsts[1].core.kd = 2 /\ AllInsts[1].core.kp = 1
    /\ AllInsts[1].core.i_max = 2 /\ AllInsts[1].core.err_min = None
    /\ block_call.insts[1].core.prev_err = None
    /\ AllInsts[1].core.prev_err = 10
    /\ AllInsts[1].last_u = -58

\* ================================================ invalid-loop claims
\* a definition whose channels exist: the output on the board, the input in
\* the block of its source
ValidFor(lp, ai_block_2d_len) ==
    /\ lp.out_ch >= 0
    /\ lp.out_ch < (IF lp.kind = "digital" THEN NumDO ELSE NumAO)
    /\ lp.src = "ai" /\ lp.ai_ch >= 0 /\ lp.ai_ch < ai_block_2d_len

\* C16: in a block in which some loop is invalid, every valid enabled loop
\* still has its command computed and written to its output.  (Blocks carry
\* at least one channel; a loop reading channel 0 finds its input.)
C16_OtherLoopsStillWritten ==
    op = "drain" =>
        \A k \in 1..Len(AllInsts) :
            LET x == AllInsts[k]
                lp == defs[x.defn]
            IN
            (lp.enabled /\ ValidFor(lp, 1)) =>
                \E w \in written :
                    /\ w.kind = (IF lp.kind = "digital" THEN "do" ELSE "ao")
                    /\ w.ch = lp.out_ch

\* the block of the loop's source is absent, or has no channel lp.ai_ch
InputMissing(lp, shape) ==
    LET n == IF lp.src = "tc" THEN shape.n_tc ELSE shape.n_ai
    IN n = 0 \/ lp.ai_ch < 0 \/ lp.ai_ch >= n

CommandsOf(c, id) ==
    {ch \in DOMAIN c.do : c.do[ch].defn = id} \cup {ch \in DOMAIN c.ao : c.ao[ch].defn = id}

\* C17: over a block, a loop whose input channel is missing from the block of
\* its source (index out of range, or no such block) is left as it was,
\* integral and previous error included, and no command comes from it; every
\* other loop is processed and its output channel gets a command.
C17_MissingInputSkipsOnlyThatLoop ==
    [][op' = "drain" =>
          \A k \in 1..Len(AllInsts) :
              IF InputMissing(defs[AllInsts[k].defn], block_shape')
              THEN /\ (dloops' \o aloops')[k] = AllInsts[k]
                   /\ CommandsOf(cmds', AllInsts[k].defn) = {}
              ELSE /\ (dloops' \o aloops')[k].core.prev_err # None
                   /\ defs[AllInsts[k].defn].out_ch \in
                         (IF defs[AllInsts[k].defn].kind = "digital"
                          THEN DOMAIN cmds'.do ELSE DOMAIN cmds'.ao)]_vars

\* a block with two loops: one skipped for its missing input, one stepped
C17_Witness ==
    /\ op = "drain"
    /\ \E k, j \in 1..Len(AllInsts) :
          /\ InputMissing(defs[AllInsts[k].defn], block_shape)
          /\ defs[AllInsts[k].defn].src = "ai" /\ block_shape.n_ai = 2
          /\ ~InputMissing(defs[AllInsts[j].defn], block_shape)
          /\ AllInsts[j].core.i # 0
          /\ CommandsOf(cmds, AllInsts[j].defn) # {}

\* ================================================== configuration claims
\* the logical decision behind a write: last_actuate of the instance built
\* from the definition that produced it
DecisionOf(w) ==
    \E k \in 1..Len(dloops) : dloops[k].defn = w.defn /\ dloops[k].last_actuate

\* C13: a digital command written to an output is the loop's logical decision
\* when the output is configured normally-open at the moment of the write and
\* its negation when it is configured normally-closed.
C13_BitFollowsCurrentPolarity ==
    op = "drain" =>
        \A w \in written :
            w.kind = "do" =>
                w.v = (IF NormallyOpenOf(cfg_no, w.ch) THEN Bit(DecisionOf(w))
                       ELSE Bit(~DecisionOf(w)))

\* ================================================== acquisition claims
\* C15: once a read of new scan samples has raised, the worker's run has ended
\* with that exception, which so reaches the code that started the worker,
\* and no further read was attempted.
C15_FaultPropagatedNotRetried ==
    worker.fault => (worker.pc = "raised" /\ worker.reads_after_fault = 0)

\* ========================================================= history claims
AllHistories == <<hist.ai_hist_x>> \o hist.ai_hist_y \o hist.do_hist_y
                    \o hist.ao_hist_y \o hist.tc_hist_y

\* C14: applying a configuration to a connected device leaves no block
\* queued, and no timer pass appends or feeds to the PID loops a block that
\* was acquired before a reconfiguration.
C14_OldBlocksDiscarded ==
    [][/\ (op' = "apply_config" /\ daq_connected) => chunk_queue' = <<>>
       /\ op' = "loop" =>
             \A k \in 1..(Len(chunk_queue) - Len(chunk_queue')) : ~chunk_queue[k].old]_vars

\* C18: the time axis is one run of times with the step of the current sample
\* period, whatever was appended and discarded; a connect leaves it empty, and
\* the samples appended to an empty axis are timed from 0.
C18_TimeAxisOneRunFromZero ==
    [][/\ Len(hist'.ai_hist_x.vals) <= 1
       /\ hist'.ai_hist_x.vals # <<>> =>
             /\ hist'.ai_hist_x.vals[1].step = sample_period'
             /\ hist'.ai_hist_x.vals[1].step > 0
             /\ hist'.ai_hist_x.vals[1].n = hist'.ai_hist_x.n
       /\ op' = "connect" => hist'.ai_hist_x.vals = <<>>
       /\ (op' = "loop" /\ hist.ai_hist_x.vals = <<>> /\ hist'.ai_hist_x.vals # <<>>) =>
             last_of(hist'.ai_hist_x.vals) =
                 (queued_samples(chunk_queue) - queued_samples(chunk_queue') - 1) * sample_period]_vars

\* an axis that grew over several blocks and lost its oldest times
C18_Witness ==
    /\ op = "loop"
    /\ hist.ai_hist_x.vals # <<>>
    /\ hist.ai_hist_x.vals[1].t0 > 0
    /\ hist.ai_hist_x.n = hist.ai_hist_x.maxlen
    /\ hist.ai_hist_x.n > 250

\* C19: one timer pass removes at most MaxBatches payloads, the ones at the
\* head of the queue, appends their samples in that order, and leaves the
\* payloads behind them queued as they were.
C19_PassPopsAtMostEightFromHead ==
    [][op' = "loop" =>
          \E k \in 0..MaxBatches :
              /\ k <= Len(chunk_queue)
              /\ chunk_queue' = SubSeq(chunk_queue, k + 1, Len(chunk_queue))
              /\ hist'.ai_hist_x.n =
                    Min2(hist.ai_hist_x.maxlen,
                         hist.ai_hist_x.n + queued_samples(SubSeq(chunk_queue, 1, k)))]_vars

\* a pass that left payloads behind: more than MaxBatches were waiting
C19_Witness ==
    /\ op = "loop"
    /\ Len(chunk_queue) >= 1
    /\ axis_samples(hist) > MaxBatches * 80

\* ceil(sampleRate * windowSeconds * 1.25) for the rate in effect
HeadroomLen == ((MicroPerSec \div sample_period) * time_window_s * 5 + 3) \div 4

\* C20 as stated: no history holds more than ceil(sampleRate * windowSeconds *
\* 1.25) entries.
C20_AtMostHeadroomLen ==
    \A i \in 1..Len(AllHistories) : AllHistories[i].n <= HeadroomLen

\* C20, amended: no history holds more than max(256, ceil(sampleRate *
\* windowSeconds * 1.25)) entries, every ring has exactly that capacity, and
\* the times the axis holds are the newest of those appended to it.
C20_AtMostFlooredHeadroomLen ==
    /\ \A i \in 1..Len(AllHistories) :
          /\ AllHistories[i].n <= Max2(256, HeadroomLen)
          /\ AllHistories[i].maxlen # None => AllHistories[i].maxlen = Max2(256, HeadroomLen)
    /\ hist.ai_hist_x.vals # <<>> =>
          hist.ai_hist_x.vals[1].t0 =
              (axis_samples(hist) - hist.ai_hist_x.n) * hist.ai_hist_x.vals[1].step

\* a ring at the floor capacity that has discarded its oldest entries
C20_Witness ==
    /\ op = "loop"
    /\ HeadroomLen < 256
    /\ hist.ai_hist_x.n = 256
    /\ axis_samples(hist) > 256
    /\ \A i \in 1..Len(AllHistories) : AllHistories[i].n = 256

\* C4: after every consumer-side operation the time axis and every
\* analog-input, digital-output, analog-output and thermocouple history have
\* the same length.
C4_HistoriesEqualLength ==
    \A i \in 1..Len(AllHistories) : AllHistories[i].n = hist.ai_hist_x.n


\* ====================================================== PID manager claims
\* C5: every output write issued for a block carries a value computed by a
\* loop whose definition is enabled at the time of the write.
C5_WritesFromEnabledLoops ==
    op = "drain" => \A w \in written : defs[w.defn].enabled

\* C6: no entry of the command maps process_block returned was produced by a
\* loop whose definition is disabled.
C6_NoCommandFromDisabledLoop ==
    op = "drain" =>
        /\ \A ch \in DOMAIN cmds.do : defs[cmds.do[ch].defn].enabled
        /\ \A ch \in DOMAIN cmds.ao : defs[cmds.ao[ch].defn].enabled

\* C7: the first step a loop takes after its definition went from disabled to
\* enabled starts from integral 0 and no previous error.
C7_FirstStepFromReset ==
    \A s \in first_steps : s.i = 0 /\ s.prev_err = None

\* C8: is_do_controlled(ch) (is_ao_controlled(ch)) is true exactly when a
\* digital (analog) instance that process_block executes has output channel ch.
C8_ControlledIffLiveInstance ==
    /\ \A ch \in 0..7 :
          is_do_controlled(ch) <=> \E k \in 1..Len(dloops) : defs[dloops[k].defn].out_ch = ch
    /\ \A ch \in 0..1 :
          is_ao_controlled(ch) <=> \E k \in 1..Len(aloops) : defs[aloops[k].defn].out_ch = ch

\* ========================================================= control-law claims
\* C9: after the steps of a block, the integral of every loop whose integral
\* clamps are both set, lower not above upper, lies within the clamps (a block
\* of one sample is one step).
C9_IntegralWithinClamps ==
    op = "process_block" =>
        \A k \in 1..Len(AllInsts) :
            LET c == AllInsts[k].core IN
            (c.i_min # None /\ c.i_max # None /\ c.i_min <= c.i_max /\ c.prev_err # None)
                => (c.i_min <= c.i /\ c.i <= c.i_max)

\* the integral sits on its upper clamp although the step added to it, and on
\* a clamp interval that does not contain the initial 0
C9_Witness ==
    /\ op = "process_block"
    /\ \E k \in 1..Len(AllInsts) :
          LET c == AllInsts[k].core IN
          /\ c.ki = 1 /\ c.i_min = 1 /\ c.i_max = 4 /\ c.i = 4
          /\ c.prev_err # None /\ c.prev_err > 4

\* C10: the command process_block returns for the channel of an analog loop
\* that took steps lies within the loop's output range, an unset bound being
\* -10 resp. 10, when the lower bound is not above the upper; with kp = 100,
\* target 0, no I or D gain and input 5 the command is -10.
C10_AnalogCommandWithinRange ==
    op = "process_block" =>
        \A k \in 1..Len(aloops) :
            LET a == aloops[k]
                lp == defs[a.defn]
            IN
            /\ a.lo = (IF lp.out_min = None THEN -10 ELSE lp.out_min)
            /\ a.hi = (IF lp.out_max = None THEN 10 ELSE lp.out_max)
            /\ lp.out_ch \in DOMAIN cmds.ao
            /\ a.lo <= a.hi =>
                  (a.lo <= cmds.ao[lp.out_ch].v /\ cmds.ao[lp.out_ch].v <= a.hi)
            /\ (lp.kp = 100 /\ lp.target = 0 /\ lp.ki = 0 /\ lp.kd = 0
                /\ lp.out_min = None /\ lp.out_max = None /\ a.last_ai = 5)
                  => cmds.ao[lp.out_ch].v = -10

\* the example of the claim: raw effort -500 is returned as -10
C10_Witness ==
    /\ op = "process_block"
    /\ \E k \in 1..Len(aloops) :
          LET a == aloops[k]
              lp == defs[a.defn]
          IN
          /\ lp.kp = 100 /\ lp.target = 0 /\ lp.ki = 0 /\ lp.kd = 0
          /\ lp.out_min = None /\ lp.out_max = None
          /\ a.last_ai = 5 /\ a.last_u = -500
          /\ cmds.ao[lp.out_ch].v = -10

\* C11: after a block, the logical decision of a digital loop is (control
\* effort >= 0) for the last sample, the effort being kp*err + integral when
\* kd = 0, and the commanded bit is the decision for a normally-open output
\* and its negation for a normally-closed one; target 50, kp 1, ki 0, kd 0, no
\* clamps, input 40 gives effort 10, bit 1 normally-open and bit 0
\* normally-closed.
C11_DigitalDecisionAndBit ==
    op = "process_block" =>
        \A k \in 1..Len(dloops) :
            LET d == dloops[k]
                lp == defs[d.defn]
                nopen == NormallyOpenOf(cfg_no, lp.out_ch)
            IN
            /\ d.last_u # NaN
            /\ d.last_actuate = (d.last_u >= 0)
            /\ lp.kd = 0 => d.last_u = lp.kp * d.last_err + d.core.i
            /\ lp.out_ch \in DOMAIN cmds.do
            /\ cmds.do[lp.out_ch].v = (IF nopen THEN Bit(d.last_actuate) ELSE Bit(~d.last_actuate))
            /\ (lp.target = 50 /\ lp.kp = 1 /\ lp.ki = 0 /\ lp.kd = 0
                /\ lp.err_min = None /\ lp.err_max = None
                /\ lp.i_min = None /\ lp.i_max = None /\ d.last_ai = 40)
                  => (d.last_u = 10 /\ cmds.do[lp.out_ch].v = (IF nopen THEN 1 ELSE 0))

\* the example of the claim on a normally-closed output: effort 10, bit 0
C11_Witness ==
    /\ op = "process_block"
    /\ \E k \in 1..Len(dloops) :
          LET d == dloops[k]
              lp == defs[d.defn]
          IN
          /\ ~NormallyOpenOf(cfg_no, lp.out_ch)
          /\ lp.target = 50 /\ lp.kp = 1 /\ lp.ki = 0 /\ lp.kd = 0
          /\ lp.err_min = None /\ lp.i_min = None
          /\ d.last_ai = 40 /\ d.last_u = 10 /\ d.last_actuate
          /\ cmds.do[lp.out_ch].v = 0

\* the clamp of the statements: an absent bound is unbounded on that side
LowerBounded(x, lo) == IF lo = None THEN x ELSE Max2(x, lo)
UpperBounded(x, hi) == IF hi = None THEN x ELSE Min2(x, hi)
ClampedTo(x, lo, hi) == UpperBounded(LowerBounded(x, lo), hi)
Ordered(lo, hi) == lo = None \/ hi = None \/ lo <= hi

\* the error, integral and derivative the statements prescribe for a step
\* from core c with input pv and period dt
LawErr(c, pv) == ClampedTo(c.setpoint - pv, c.err_min, c.err_max)
LawInt(c, pv, dt) == ClampedTo(c.i + c.ki * LawErr(c, pv) * dt, c.i_min, c.i_max)
LawDer(c, pv, dt) ==
    IF c.prev_err # None /\ dt > 0 THEN (c.kd * (LawErr(c, pv) - c.prev_err)) \div dt ELSE 0

\* C12: a step with input pv and period dt leaves error = clamp(target - pv),
\* integral = clamp(integral + ki*error*dt) and returns kp*error + integral +
\* derivative, an absent bound being unbounded, for digital and analog loops
\* alike (clamp bounds given in order).
C12_StepLaw ==
    op = "step" =>
        \A k \in 1..Len(AllInsts) :
            LET x == AllInsts[k]
                c == step_call.core
                pv == step_call.pv
                dt == step_call.dt
            IN
            (Ordered(c.err_min, c.err_max) /\ Ordered(c.i_min, c.i_max)) =>
                /\ x.last_err = LawErr(c, pv)
                /\ x.core.prev_err = LawErr(c, pv)
                /\ x.core.i = LawInt(c, pv, dt)
                /\ x.last_u = c.kp * LawErr(c, pv) + LawInt(c, pv, dt) + LawDer(c, pv, dt)

\* an analog loop steps with all three terms at work: error 10 after 45,
\* integral held at its upper clamp 4, derivative 2*(10-45)/2
C12_Witness ==
    /\ op = "step"
    /\ Len(aloops) = 1
    /\ step_call.dt = 2 /\ step_call.pv = 40
    /\ step_call.core.prev_err = 45 /\ step_call.core.kd = 2 /\ step_call.core.ki = 1
    /\ step_call.core.kp = 1
    /\ aloops[1].core.i_max = 4 /\ aloops[1].core.i = 4
    /\ aloops[1].last_err = 10
    /\ aloops[1].last_u = 10 + 4 - 35

\* C22: the derivative term of a step, which is what the output holds beyond
\* kp*error + integral, is 0 on a core without previous error and for dt <= 0,
\* and kd*(error - previous error)/dt otherwise; every step leaves its clamped
\* error as the previous error.
C22_DerivativeTerm ==
    op = "step" =>
        \A k \in 1..Len(AllInsts) :
            /\ AllInsts[k].core.prev_err = AllInsts[k].last_err
            /\ AllInsts[k].last_u
                  - step_call.core.kp * AllInsts[k].last_err - AllInsts[k].core.i
               = IF step_call.core.prev_err = None \/ step_call.dt <= 0 THEN 0
                 ELSE (step_call.core.kd * (AllInsts[k].last_err - step_call.core.prev_err))
                          \div step_call.dt

\* a step with dt <= 0 on a core that has a previous error and derivative gain:
\* no derivative in the output, the previous error replaced all the same
C22_Witness ==
    /\ op = "step"
    /\ step_call.dt <= 0
    /\ step_call.core.kd = 2
    /\ step_call.core.prev_err = 45
    /\ AllInsts[1].last_err = 10
    /\ AllInsts[1].core.prev_err = 10
    /\ AllInsts[1].last_u = step_call.core.kp * 10 + AllInsts[1].core.i

\* ======================================================= scan reader claims
RECURSIVE TotalLen(_)
TotalLen(lists) ==
    IF lists = <<>> THEN 0 ELSE Len(lists[1]) + TotalLen(Tail(lists))

\* the first n values the board wrote for channel c (channel index c - 1)
ChannelWritten(c, n) == [i \in 1..n |-> (i - 1) * scan_num_ch + (c - 1)]

IsPrefix(s, t) == Len(s) <= Len(t) /\ \A i \in 1..Len(s) : s[i] = t[i]

\* C1: every packet read_ai_new returns holds per-channel lists of one common
\* length, whatever ring-write index the board reported.
C1_EqualRunLengths ==
    ~ret.none =>
        /\ Len(ret.ch_lists) = ret.num_ch
        /\ \A c, d \in 1..ret.num_ch : Len(ret.ch_lists[c]) = Len(ret.ch_lists[d])

C1_Witness ==
    /\ op = "read_ai_new" /\ ~ret.none /\ ret.num_ch >= 2
    /\ Len(ret.ch_lists[1]) >= 1
    /\ Unread > 0 /\ Unread < scan_num_ch

\* C2 as stated: after any read, whatever the board wrote in between, the runs
\* returned so far for a channel are exactly the channel's written samples of
\* all whole frames.
C2_AllSamplesDelivered ==
    (op = "read_ai_new" /\ scan_running) =>
        \A c \in 1..scan_num_ch :
            delivered[c] = ChannelWritten(c, hw_count \div scan_num_ch)

\* C2 amended: the same, as long as every read so far found less than one
\* whole ring of unread values; in between reads the returned runs are a
\* prefix of what the board wrote for the channel.
C2_DeliveredUnlessOverrun ==
    ~overrun =>
        \A c \in 1..scan_num_ch :
            /\ IsPrefix(delivered[c], ChannelWritten(c, hw_count \div scan_num_ch))
            /\ (op = "read_ai_new" /\ scan_running) =>
                   delivered[c] = ChannelWritten(c, hw_count \div scan_num_ch)

C2_Witness ==
    /\ op = "read_ai_new" /\ scan_running /\ ~overrun
    /\ scan_num_ch >= 2
    /\ hw_count > scan_count                \* the board has lapped the ring
    /\ Len(delivered[1]) * scan_num_ch > scan_count
    \* the last read took its values in two pulls, around the end of the ring
    /\ scan_last_index > 0 /\ TotalLen(ret.ch_lists) > scan_last_index

\* C3: a read moves the read index by the number of values it returned; with
\* less than one whole frame unread it returns empty lists and leaves the
\* index alone; the ring is not altered and the values of a partial frame
\* remain between the read index and the write index.
C3_AdvanceByReturned ==
    [][ (op' = "read_ai_new" /\ scan_running) =>
          /\ scan_last_index' = (scan_last_index + TotalLen(ret'.ch_lists)) % scan_count
          /\ (Unread < scan_num_ch =>
                 /\ ~ret'.none
                 /\ ret'.ch_lists = EmptyLists(scan_num_ch)
                 /\ scan_last_index' = scan_last_index)
          /\ scan_mem' = scan_mem
          /\ (CurIndex - scan_last_index') % scan_count
                 = ((CurIndex - scan_last_index) % scan_count) % scan_num_ch
      ]_vars

C3_Witness ==
    /\ op = "read_ai_new" /\ scan_running /\ ~overrun
    /\ Unread > 0 /\ Unread < scan_num_ch
    /\ ret.ch_lists = EmptyLists(scan_num_ch)
    /\ Len(delivered[1]) > 0

\* the ring positions one pull <<first, count>> copies, in order
PullPositions(p) == [i \in 1..p[2] |-> p[1] + i - 1]

AllPositions(ps) ==
    IF Len(ps) = 1 THEN PullPositions(ps[1])
    ELSE PullPositions(ps[1]) \o PullPositions(ps[2])

\* the values a read that starts now copies out of the ring
ProcessedNow == Processed((CurIndex - scan_last_index) % scan_count, scan_num_ch)

PullsNow == Pulls(scan_last_index, ProcessedNow, scan_count)

\* C31: a read that returns samples copies them out of the ring with one or
\* two contiguous pulls, each inside the ring (start >= 0, count >= 1,
\* start + count <= capacity), which together take the ring positions last,
\* last + 1, ... (mod capacity) in that order.
C31_PullsInsideRingInOrder ==
    [][ (op' = "read_ai_new" /\ scan_running /\ ProcessedNow > 0) =>
          /\ Len(PullsNow) \in {1, 2}
          /\ \A k \in 1..Len(PullsNow) :
                /\ PullsNow[k][1] >= 0
                /\ PullsNow[k][2] >= 1
                /\ PullsNow[k][1] + PullsNow[k][2] <= scan_count
          /\ AllPositions(PullsNow) =
                [i \in 1..ProcessedNow |-> (scan_last_index + i - 1) % scan_count]
          /\ TotalLen(ret'.ch_lists) = ProcessedNow
      ]_vars

\* a read took its values in two pulls, around the end of the ring
C31_Witness ==
    /\ op = "read_ai_new" /\ scan_running
    /\ scan_num_ch >= 2
    /\ scan_last_index > 0 /\ TotalLen(ret.ch_lists) > scan_last_index
    /\ TotalLen(ret.ch_lists) >= 4

\* C32: once a scan has been started the read index is within the ring
\* (0 <= index < capacity) and a multiple of the frame size, as is the
\* capacity, so the first value a read pulls is one of the lowest scanned
\* channel and every value lands in the list of the channel it was taken on.
C32_ReadIndexOnFrameBoundary ==
    scan_count > 0 =>
        /\ 0 <= scan_last_index /\ scan_last_index < scan_count
        /\ scan_last_index % scan_num_ch = 0
        /\ scan_count % scan_num_ch = 0
        /\ (op = "read_ai_new" /\ ~ret.none) =>
              \A c \in 1..Len(ret.ch_lists) : \A k \in 1..Len(ret.ch_lists[c]) :
                  ret.ch_lists[c][k] % scan_num_ch = c - 1

\* a read on three channels has moved the index to a later frame of the ring
C32_Witness ==
    /\ op = "read_ai_new" /\ scan_running
    /\ scan_num_ch = 3
    /\ scan_last_index >= 3
    /\ Len(ret.ch_lists[1]) >= 1
    /\ hw_count % 3 # 0

\* ==================================================== queue claims
\* the lengths of the waiting payloads, head first
Ms(q) == [k \in 1..Len(q) |-> q[k].M]

\* the time the next sample appended to the axis gets
AxisNext(h, sp) == IF h.ai_hist_x.vals = <<>> THEN 0 ELSE last_of(h.ai_hist_x.vals) + sp

\* the histories a timer pass extends whatever the E-TC does
ScanHistories(h) == h.ai_hist_y \o h.do_hist_y \o h.ao_hist_y

\* from h to h2 the samples of the payloads in popped were appended, each once
AppendedOnce(h, h2, popped, sp) ==
    /\ AxisNext(h2, sp) = AxisNext(h, sp) + queued_samples(popped) * sp
    /\ \A i \in 1..Len(ScanHistories(h)) :
          ScanHistories(h2)[i].n =
              IF ScanHistories(h)[i].maxlen = None
              THEN ScanHistories(h)[i].n + queued_samples(popped)
              ELSE Min2(ScanHistories(h)[i].maxlen,
                        ScanHistories(h)[i].n + queued_samples(popped))

C34_ProducerFreeQueueDrains ==
    /\ [](acq_running => \A M \in DrainBlockLens : ENABLED OnChunkReady(M))
    /\ (~acq_running) ~> (acq_running \/ chunk_queue = <<>>)

\* the worker was stopped and timer passes have emptied a queue that held
\* more than one pass pops
C34_Witness ==
    /\ op = "loop"
    /\ ~acq_running
    /\ chunk_queue = <<>>
    /\ axis_samples(hist) > MaxBatches * 80

\* ==================================================== shared output channel
\* the block holds the input column of definition lp (pid.py:219-224, 228-233)
HasInput(lp, shape) ==
    \/ lp.src = "tc" /\ shape.n_tc # 0 /\ 0 <= lp.ai_ch /\ lp.ai_ch < shape.n_tc
    \/ lp.src = "ai" /\ shape.n_ai # 0 /\ 0 <= lp.ai_ch /\ lp.ai_ch < shape.n_ai

\* the instances of one list that name the output channel of instance k
Sharing(insts, k) ==
    {j \in 1..Len(insts) : defs[insts[j].defn].out_ch = defs[insts[k].defn].out_ch}

WithInput(insts, S, shape) == {j \in S : HasInput(defs[insts[j].defn], shape)}

Latest(S) == CHOOSE k \in S : \A j \in S : j <= k

OutputOf(x) == IF x.kind = "digital" THEN x.last_do_bit ELSE x.last_ao

\* the samples a block holds for definition lp
SamplesFor(lp) == IF lp.src = "tc" THEN DupTcPv ELSE DrainPv

\* cm holds for channel ch the command of instance k as the block left it
CommandOf(cm, ch, after, k) ==
    /\ ch \in DOMAIN cm
    /\ cm[ch].defn = after[k].defn
    /\ cm[ch].v = OutputOf(after[k])

\* the claim as it stands: all sharing instances step, the latest commands
BothStepLatestCommands(insts, after, cm, shape) ==
    \A k \in 1..Len(insts) :
        Cardinality(Sharing(insts, k)) >= 2 =>
            /\ WithInput(insts, Sharing(insts, k), shape) = Sharing(insts, k)
            /\ \A j \in Sharing(insts, k) : after[j].last_ai \in SamplesFor(defs[insts[j].defn])
            /\ CommandOf(cm, defs[insts[k].defn].out_ch, after, Latest(Sharing(insts, k)))

\* the sharing instances whose input the block holds step, the others are
\* left as they were; the latest of those that stepped commands, and the
\* channel has no command when none stepped
InputStepsLatestCommands(insts, after, cm, shape) ==
    \A k \in 1..Len(insts) :
        Cardinality(Sharing(insts, k)) >= 2 =>
            /\ \A j \in WithInput(insts, Sharing(insts, k), shape) :
                  after[j].last_ai \in SamplesFor(defs[insts[j].defn])
            /\ \A j \in Sharing(insts, k) \ WithInput(insts, Sharing(insts, k), shape) :
                  after[j] = insts[j]
            /\ IF WithInput(insts, Sharing(insts, k), shape) = {}
               THEN defs[insts[k].defn].out_ch \notin DOMAIN cm
               ELSE CommandOf(cm, defs[insts[k].defn].out_ch, after,
                              Latest(WithInput(insts, Sharing(insts, k), shape)))

NumberWithin(x, lo, hi) == x # NaN /\ x # None /\ lo <= x /\ x <= hi

\* the integral of core c is a number within the clamps that are set
IntegralWithin(c) ==
    /\ c.i # NaN
    /\ c.i_min # None => c.i >= c.i_min
    /\ c.i_max # None => c.i <= c.i_max

\* the analog instance built from definition id
InstanceOf(id) == CHOOSE k \in 1..Len(aloops) : aloops[k].defn = id

\* C36: an analog loop's output command, and the value finally written to
\* the analog output, is a number within [outputMin, outputMax], also when
\* an input sample is the not-a-number of a failed thermocouple read, and
\* the loop's integral stays within its clamps.
C36_AnalogOutputIsNumberInRange ==
    /\ \A ch \in DOMAIN cmds.ao :
          NumberWithin(cmds.ao[ch].v, aloops[InstanceOf(cmds.ao[ch].defn)].lo,
                       aloops[InstanceOf(cmds.ao[ch].defn)].hi)
    /\ \A w \in outs.hw :
          (w.src = "pid" /\ w.kind = "ao") =>
              \E k \in 1..Len(aloops) :
                  /\ defs[aloops[k].defn].out_ch = w.ch
                  /\ NumberWithin(set_ao_volts(w.v), aloops[k].lo, aloops[k].hi)
    /\ (op = "drain_payload" /\ block_shape.n_tc > 0) =>
          \A k \in 1..Len(aloops) : IntegralWithin(aloops[k].core)

\* ==================================================== join before stop
\* the step frees the scan ring or starts a scan
FreesOrRestarts == (scan_running /\ ~scan_running') \/ op' = "start_ai_scan"

\* C37: the scan buffer is freed and the scan is restarted only when no
\* acquisition worker is still executing read_ai_new.
C37_NoFreeUnderRead == [][FreesOrRestarts => worker.pc # "reading"]_vars

\* ==================================================== stop of the worker
\* C38: after stop() is called on the acquisition worker its run loop
\* eventually terminates, and it emits at most one more block, when every
\* driver read returns.
C38_StopTerminatesWithinOneBlock ==
    /\ worker.stop ~> worker.pc = "none"
    /\ [](worker.after_stop <= 1)

\* stop() found the worker inside read_ai_new; the read returned a block,
\* which was emitted, and the thread is back at the while test
C38_Witness ==
    /\ worker.stop
    /\ worker.pc = "loop"
    /\ worker.after_stop = 1

\* ==================================================== script claims
\* the step is a reset of the runner (reset, or set_events inside Run)
ScriptResets == op' \in {"act_run_script", "act_reset_script"}

\* C39: between two resets every script event is applied to the outputs at
\* most once and in list order (the cursor never decreases); stop() and a
\* later run() apply nothing, leave the cursor alone and continue the script
\* time where it was paused, so no event is skipped or repeated; and the
\* tick that applies the last event emits finished and stops the timer.
C39_EventsOnceInOrder ==
    [][ /\ script'.applied = [k \in 1..script'.cursor |-> k]
        /\ ~ScriptResets =>
              /\ script'.cursor >= script.cursor
              /\ SubSeq(script'.applied, 1, Len(script.applied)) = script.applied
        /\ op' \in {"act_stop_script", "script_run"} =>
              /\ script'.cursor = script.cursor
              /\ script'.applied = script.applied
              /\ outs' = outs
        /\ (op' = "script_run" /\ script.paused /\ script.t0 # None) =>
              script'.now - script'.t0 = script.pause_t
        /\ (op' = "script_tick" /\ script'.cursor > script.cursor
                /\ script'.cursor = Len(script'.events)) =>
              script'.finished /\ ~script'.timer
        /\ (op' = "script_tick" /\ script'.cursor < Len(script'.events)) =>
              ~script'.finished
      ]_vars

\* a runner that was paused after its first events and resumed: its script
\* time is past zero and events are still to come
C39_Witness ==
    /\ op = "script_run"
    /\ ~script.paused
    /\ script.cursor > 0
    /\ script.cursor < Len(script.events)
    /\ script.now - script.t0 > 0

====
